---- MODULE Spec2Model ----
(***************************************************************************)
(* Victron monitoring tool: the polling loop of victron_monitor.py         *)
(* (monitor), the notification gate (send_telegram_message) and the        *)
(* outage-schedule cache and pre-outage trigger that run inside the loop.  *)
(*                                                                         *)
(* Units.  Voltages are millivolts, currents milliamperes, powers          *)
(* milliwatts, ratios per mille, so that every float comparison of the     *)
(* source (230 * 0.955, max_power * 0.98, ...) is an exact integer         *)
(* comparison.  Time is seconds since a Monday 00:00 local time; a date    *)
(* is the number of whole days since then.                                 *)
(*                                                                         *)
(* An absent value (Python None) is the empty tuple, a present value v is  *)
(* the one-element tuple <<v>>, so absence is never the number 0.          *)
(***************************************************************************)
EXTENDS Integers, Sequences, FiniteSets, TLC

None == <<>>

Some(v) == <<v>>

Val(x) == x[1]

Min2(a, b) == IF a <= b THEN a ELSE b

Max2(a, b) == IF a >= b THEN a ELSE b

RECURSIVE Pow2(_)
Pow2(n) == IF n = 0 THEN 1 ELSE 2 * Pow2(n - 1)

Phases == 1..3

\* Sequencing: F applied to the value of m (m is evaluated once, as a
\* statement's effect is computed once before the next statement runs).
Then(F(_, _), m, inp) == CHOOSE r \in { F(x, inp) : x \in {m} } : TRUE

ThenPhase(F(_, _, _), m, inp, phase) ==
    CHOOSE r \in { F(x, inp, phase) : x \in {m} } : TRUE

(* ---------------- bounds of the model ---------------- *)

\* Number of polling cycles explored from process start.
MaxCycles == 6

\* Menu commands (show the cached schedule, force a fetch) in a behaviour.
MaxMenu == 1

\* Polling cycles in a behaviour of the quiet-hours specification.
MaxGateCycles == 2

\* Polling cycles in a behaviour of the schedule specification.
MaxSchedCycles == 3

\* Polling cycles in a behaviour of the backoff specification.
MaxBackoffCycles == 9

\* turn_devices_* calls in a behaviour of the actuator specification.
MaxRequests == 1

\* Polling cycles in a behaviour of the actuator specification.
MaxTuyaCycles == 2

\* The re-authentications of one retry sequence are counted up to this.
MaxReauths == 2

(* ---------------- program constants and settings ---------------- *)

PASSTHRU_STATE == 9

REFRESH_PERIOD == 5

NOMINAL_VOLTAGE == 230

\* VOLTAGE_LOW_THRESHOLD '0.90' and VOLTAGE_HIGH_THRESHOLD '1.10', per mille.
VOLTAGE_LOW_THRESHOLD == 900

VOLTAGE_HIGH_THRESHOLD == 1100

BATTERY_LOW_SOC_THRESHOLD == 20

BATTERY_CRITICAL_SOC_THRESHOLD == 10

\* MAX_POWER (watts) and PASSTHRU_CURRENT (amperes) have no default: the
\* installation configures them.  4000 W is the spec's example.
MAX_POWER == 4000

PASSTHRU_CURRENT == 32

PRE_OUTAGE_TUYA_OFF_MINUTES == 5

\* max_retries of ensure_desired_state
max_retries == 100

SecondsPerDay == 24 * 60 * 60

(* ---------------- state ---------------- *)

VARIABLES
    \* module globals of victron_monitor.py
    last_grid_status, last_soc,
    battery_low_reported, battery_critical_reported,
    last_voltage_phases, voltage_issue_reported,
    power_issue_counters, power_issue_reported,
    reset_last_values, schedule_login_in_progress,
    dtek_schedule_cache, dtek_schedule_last_updated,
    \* locals of monitor() that live across iterations
    first_run, tuya_controller, schedule_fetcher,
    next_schedule_fetch_ts, schedule_fetch_failures, pre_outage_triggered,
    monitor_running,
    \* environment: settings.ini, the cache file, the clock
    settings, cache_file, now,
    \* observation of the last step: the snapshot it read, what it sent and
    \* which actuator requests it made, the number of cycles run, and the grid
    \* value of the latest snapshot that had one (expected_grid: the code of
    \* the latest snapshot whose code was 0 or 2, -1 before the first)
    snap, out, cycle_no, accepted_grid, expected_grid,
    \* observation of the schedule: what the last step's cache update did (None
    \* when it made none), the period starts the pre-outage trigger has
    \* requested turn_devices_off for, and the number of menu commands run
    cache_update, pre_invoked, menu_no,
    \* observation of delivery: the messages of the last cycle whose
    \* bot.send_message call raised
    failed,
    \* the actuator: the ensure_desired_state task of each device, the
    \* turn_devices_* call the monitor is suspended in (None when it is not),
    \* and the number of such calls made step by step
    sequences, monitor_awaits, request_no,
    \* the desired states of the ensure_desired_state tasks of earlier calls
    \* that are still running, per device (their gather has raised and nobody
    \* awaits them)
    orphans

vars == << last_grid_status, last_soc, battery_low_reported,
           battery_critical_reported, last_voltage_phases,
           voltage_issue_reported, power_issue_counters, power_issue_reported,
           reset_last_values, schedule_login_in_progress,
           dtek_schedule_cache, dtek_schedule_last_updated,
           first_run, tuya_controller, schedule_fetcher,
           next_schedule_fetch_ts, schedule_fetch_failures,
           pre_outage_triggered, monitor_running,
           settings, cache_file, now, snap, out, cycle_no,
           accepted_grid, expected_grid, cache_update, pre_invoked, menu_no, failed,
           sequences, monitor_awaits, request_no, orphans >>

(* ---------------- outputs ---------------- *)

\* A message handed to bot.send_message: its template, the phase (0 when the
\* template has none) and the disable_notification flag.
Msg(name, n, silent) ==
    [type |-> "msg", name |-> name, by |-> "monitor", n |-> n, flag |-> silent]

\* A request to the actuator: turn_devices_off / turn_devices_on, who asked
\* ("grid" or "pre"), the period start for "pre", and whether it raised.
Tuya(name, by, n, raised) ==
    [type |-> "tuya", name |-> name, by |-> by, n |-> n, flag |-> raised]

(* ---------------- thresholds computed in monitor() ---------------- *)

\* nominal_voltage * VOLTAGE_LOW_THRESHOLD, in millivolts
voltage_low_threshold == NOMINAL_VOLTAGE * VOLTAGE_LOW_THRESHOLD

voltage_high_threshold == NOMINAL_VOLTAGE * VOLTAGE_HIGH_THRESHOLD

\* nominal_voltage * 0.955 and nominal_voltage * 1.045
voltage_normal_low == NOMINAL_VOLTAGE * 955

voltage_normal_high == NOMINAL_VOLTAGE * 1045

\* max_power * 0.98 and max_power * 0.80, in milliwatts
power_limit == MAX_POWER * 980

power_reset_threshold == MAX_POWER * 800

\* PASSTHRU_CURRENT * 0.98 and PASSTHRU_CURRENT * 0.85, in milliamperes
passthru_current_limit == PASSTHRU_CURRENT * 980

passthru_current_reset_threshold == PASSTHRU_CURRENT * 850

\* power = nominal_voltage * output_currents[phase][0], in milliwatts
Power(current) == NOMINAL_VOLTAGE * current

(* ---------------- the clock ---------------- *)

current_hour(t) == (t % SecondsPerDay) \div 3600

\* weekday() + 1: 1 (Monday) to 7 (Sunday)
current_day_user_numbering(t) == ((t \div SecondsPerDay) % 7) + 1

\* now.date() as a day number
DateOf(t) == t \div SecondsPerDay

(* ---------------- send_telegram_message ---------------- *)

\* The disable_notification flag of send_telegram_message.
disable_notification(day, hour, quiet_days, quiet_hours_start, quiet_hours_end) ==
    IF day \in quiet_days
    THEN TRUE
    ELSE IF quiet_hours_start # None /\ quiet_hours_end # None
         THEN IF Val(quiet_hours_start) < Val(quiet_hours_end)
              THEN Val(quiet_hours_start) <= hour /\ hour < Val(quiet_hours_end)
              ELSE hour >= Val(quiet_hours_start) \/ hour < Val(quiet_hours_end)
         ELSE FALSE

\* config['DEFAULT'].getint(option, fallback=None) on an option that
\* load_config always defines: an empty value makes int('') raise ValueError
\* (the fallback only covers a missing option).
GetintRaises(cfg) ==
    cfg.QUIET_HOURS_START = None \/ cfg.QUIET_HOURS_END = None

\* One call of send_telegram_message inside the monitor's try block.  m is the
\* cycle's machine state; inp.sfail holds the indexes of the cycle's calls
\* whose bot.send_message raises.  An exception leaves the message unsent and
\* propagates (m.raised).
send_telegram_message(m, inp, name, n) ==
    IF m.raised
    THEN m
    ELSE LET k == m.nsend + 1 IN
         IF GetintRaises(settings) \/ k \in inp.sfail
         THEN [m EXCEPT !.nsend = k, !.raised = TRUE,
                        !.failed = Append(@, [name |-> name, n |-> n])]
         ELSE [m EXCEPT !.nsend = k,
                        !.out = Append(@, Msg(name, n,
                                   disable_notification(
                                       current_day_user_numbering(inp.now),
                                       current_hour(inp.now),
                                       settings.QUIET_DAYS,
                                       settings.QUIET_HOURS_START,
                                       settings.QUIET_HOURS_END)))]

\* The same call inside its own try/except (schedule update messages): the
\* failure is logged and the cycle goes on.
send_telegram_message_caught(m, inp, name, n) ==
    [send_telegram_message(m, inp, name, n) EXCEPT !.raised = m.raised]

(* ---------------- TuyaController requests ---------------- *)

\* await tuya_controller.turn_devices_off() / turn_devices_on() inside a
\* try/except Exception: inp.traise holds the indexes of the cycle's requests
\* that raise (asyncio.gather passes on the first exception of a device).
\* The result is the machine state and whether the request raised.
turn_devices(m, inp, name, by, n) ==
    LET k == m.ntuya + 1 IN
    [m EXCEPT !.ntuya = k,
              !.out = Append(@, Tuya(name, by, n, k \in inp.traise))]

TuyaRaised(m, inp) == m.ntuya \in inp.traise

(* ---------------- TuyaController, one device at a time ---------------- *)

\* The devices a controller may be given; self.device_ids is the value of
\* tuya_controller.
Devices == {"plug1", "plug2"}

\* The ensure_desired_state task of a device: its state ("none" before the
\* first request, "running", "returned", "raised", "cancelled"), the value of
\* `attempt` (the attempts started so far), the calls of reauthenticate it
\* made, whether its last verification saw the desired value, whether it
\* logged the error of line 365, and its desired_state ("on" or "off").
NoSequence ==
    [state |-> "none", attempt |-> 0, reauths |-> 0, verified |-> FALSE,
     error_logged |-> FALSE, desired |-> "none"]

\* Line 355 (range(1, max_retries + 1)) with one attempt too many.
LoopEndsLate(attempt) == attempt >= max_retries + 1

\* Line 355: the for loop is over after attempt max_retries.
LoopEnds(attempt) == attempt >= max_retries

\* send_command_async, lines 296-311.  response is what openapi.post does:
\* "sent" (an answer, success or a failure that is only logged),
\* "token_invalid" (code TOKEN_INVALID: reauthenticate, which swallows its
\* own failure, and one more post that answers), "raise" and
\* "token_invalid_raise" (the post, or the second post, raises).
send_command_async(seq, response) ==
    LET r == IF response \in {"token_invalid", "token_invalid_raise"}
             THEN Min2(seq.reauths + 1, MaxReauths) ELSE seq.reauths
    IN  [seq EXCEPT !.reauths = r,
                    !.state = IF response \in {"raise", "token_invalid_raise"}
                              THEN "raised" ELSE @]

\* verify_device_state_async, lines 321-342.  status is what the status
\* request gives: "match" (the switch has the desired value), "nomatch"
\* (another value, no switch item, or no status; the call sleeps `delay`
\* seconds and returns False), "raise" (openapi.get raises).
verify_device_state_async(seq, status) ==
    IF seq.state = "raised"
    THEN seq
    ELSE [seq EXCEPT !.verified = (status = "match"),
                     !.state = IF status = "raise" THEN "raised" ELSE @]

\* One pass of the loop of ensure_desired_state, lines 355-365.
Attempt(seq, response, status) ==
    LET s0 == [seq EXCEPT !.attempt = @ + 1, !.verified = FALSE]
        s1 == verify_device_state_async(send_command_async(s0, response), status)
    IN  IF s1.state = "raised" THEN s1
        ELSE IF s1.verified THEN [s1 EXCEPT !.state = "returned"]
        ELSE IF LoopEnds(s1.attempt)
        THEN [s1 EXCEPT !.state = "returned", !.error_logged = TRUE]
        ELSE s1

\* asyncio.gather with the default return_exceptions=False, lines 370 and
\* 375, when the task of device d raises: the others are left cancelled.
CancelSiblings(seqs, d) ==
    [e \in Devices |-> IF e # d /\ seqs[e].state = "running"
                       THEN [seqs[e] EXCEPT !.state = "cancelled"] ELSE seqs[e]]

\* asyncio.gather with the default return_exceptions=False, lines 370 and
\* 375, when the task of device d raises: the exception goes to the caller
\* and the other tasks keep running.
Siblings(seqs, d) == seqs

\* The monitor reaches `await tuya_controller.turn_devices_on()` or
\* `turn_devices_off()` (lines 1508, 1528, 1542): gather starts one
\* ensure_desired_state task per device and the monitor is suspended.
\* Nothing looks at the tasks of an earlier call: one that is still running
\* (its gather raised for another device) runs on beside the new one.  n is
\* the number of calls of the run.
TurnDevicesWithin(name, n) ==
    /\ monitor_running
    /\ tuya_controller # None
    /\ monitor_awaits = None
    /\ request_no < n
    /\ orphans' = [d \in Devices |->
                      IF sequences[d].state = "running"
                      THEN orphans[d] \cup {sequences[d].desired}
                      ELSE orphans[d]]
    /\ sequences' = [d \in Devices |->
                        IF d \in Val(tuya_controller)
                        THEN [NoSequence EXCEPT !.state = "running", !.desired = name]
                        ELSE NoSequence]
    /\ monitor_awaits' = Some(name)
    /\ request_no' = request_no + 1
    /\ UNCHANGED << last_grid_status, last_soc, battery_low_reported,
                    battery_critical_reported, last_voltage_phases,
                    voltage_issue_reported, power_issue_counters,
                    power_issue_reported, reset_last_values,
                    schedule_login_in_progress, dtek_schedule_cache,
                    dtek_schedule_last_updated, first_run, tuya_controller,
                    schedule_fetcher, next_schedule_fetch_ts,
                    schedule_fetch_failures, pre_outage_triggered,
                    monitor_running, settings, cache_file, now, snap, out,
                    cycle_no, accepted_grid, expected_grid, cache_update, pre_invoked,
                    menu_no, failed >>

\* The call of a run in which every task of the earlier call has ended
\* before the next call is made (the runs with tasks left over are those of
\* SpecOverlap).
TurnDevices(name) ==
    /\ \A d \in Devices : sequences[d].state # "running"
    /\ TurnDevicesWithin(name, MaxRequests)

\* A task left running by an earlier call ends: it returns (verified, or
\* max_retries attempts made) or raises; nobody awaits it.
OrphanEnds(d, desired) ==
    /\ desired \in orphans[d]
    /\ orphans' = [orphans EXCEPT ![d] = @ \ {desired}]
    /\ UNCHANGED << last_grid_status, last_soc, battery_low_reported,
                    battery_critical_reported, last_voltage_phases,
                    voltage_issue_reported, power_issue_counters,
                    power_issue_reported, reset_last_values,
                    schedule_login_in_progress, dtek_schedule_cache,
                    dtek_schedule_last_updated, first_run, tuya_controller,
                    schedule_fetcher, next_schedule_fetch_ts,
                    schedule_fetch_failures, pre_outage_triggered,
                    monitor_running, settings, cache_file, now, snap, out,
                    cycle_no, accepted_grid, expected_grid, cache_update, pre_invoked,
                    menu_no, failed, sequences, monitor_awaits, request_no >>

\* The task of device d runs one attempt: send, then verify.
DeviceAttempt(d, response, status) ==
    /\ sequences[d].state = "running"
    /\ \E s \in {Attempt(sequences[d], response, status)} :
         sequences' = IF s.state = "raised"
                      THEN Siblings([sequences EXCEPT ![d] = s], d)
                      ELSE [sequences EXCEPT ![d] = s]
    /\ UNCHANGED << last_grid_status, last_soc, battery_low_reported,
                    battery_critical_reported, last_voltage_phases,
                    voltage_issue_reported, power_issue_counters,
                    power_issue_reported, reset_last_values,
                    schedule_login_in_progress, dtek_schedule_cache,
                    dtek_schedule_last_updated, first_run, tuya_controller,
                    schedule_fetcher, next_schedule_fetch_ts,
                    schedule_fetch_failures, pre_outage_triggered,
                    monitor_running, settings, cache_file, now, snap, out,
                    cycle_no, accepted_grid, expected_grid, cache_update, pre_invoked,
                    menu_no, failed, monitor_awaits, request_no, orphans >>

\* A step of one of the tasks, with the answers of the Tuya API drawn from
\* the sets given.
DeviceStep(responses, statuses) ==
    \E d \in Devices, response \in responses, status \in statuses :
        DeviceAttempt(d, response, status)

\* The await of the monitor ends: gather returns when every task has
\* returned, and raises as soon as one task has raised (the try/except around
\* the call logs it).  The monitor goes on with its cycle.
GatherDone ==
    /\ monitor_awaits # None
    /\ \/ \E d \in Devices : sequences[d].state = "raised"
       \/ \A d \in Val(tuya_controller) : sequences[d].state = "returned"
    /\ monitor_awaits' = None
    /\ UNCHANGED << last_grid_status, last_soc, battery_low_reported,
                    battery_critical_reported, last_voltage_phases,
                    voltage_issue_reported, power_issue_counters,
                    power_issue_reported, reset_last_values,
                    schedule_login_in_progress, dtek_schedule_cache,
                    dtek_schedule_last_updated, first_run, tuya_controller,
                    schedule_fetcher, next_schedule_fetch_ts,
                    schedule_fetch_failures, pre_outage_triggered,
                    monitor_running, settings, cache_file, now, snap, out,
                    cycle_no, accepted_grid, expected_grid, cache_update, pre_invoked,
                    menu_no, failed, sequences, request_no, orphans >>

(* ---------------- the signal checks of one cycle ---------------- *)

\* Each check takes the machine state m of the running cycle (the globals and
\* locals of monitor(), the outputs so far, and m.raised: an exception is on
\* its way to the except clause of line 1654) and the cycle's inputs inp, and
\* gives the machine state after the check.  A check is skipped once an
\* exception propagates.

\* FirstRun with the thresholds compared strictly (soc < threshold).
FirstRunStrict(m, inp) ==
    LET s  == inp.snap
        m1 == [m EXCEPT !.last_grid_status = s.grid, !.last_soc = s.soc]
    IN  IF s.soc = None
        THEN [m1 EXCEPT !.raised = TRUE]
        ELSE [m1 EXCEPT
                !.battery_low_reported =
                    IF Val(s.soc) < BATTERY_LOW_SOC_THRESHOLD THEN TRUE ELSE @,
                !.battery_critical_reported =
                    IF Val(s.soc) < BATTERY_CRITICAL_SOC_THRESHOLD THEN TRUE ELSE @,
                !.first_run = FALSE]

\* FirstRun that ends priming whatever the snapshot holds: an absent SOC
\* sets no flag.
FirstRunAnySnapshot(m, inp) ==
    LET s  == inp.snap
        m1 == [m EXCEPT !.last_grid_status = s.grid, !.last_soc = s.soc,
                        !.first_run = FALSE]
    IN  IF s.soc = None
        THEN m1
        ELSE [m1 EXCEPT
                !.battery_low_reported =
                    IF Val(s.soc) <= BATTERY_LOW_SOC_THRESHOLD THEN TRUE ELSE @,
                !.battery_critical_reported =
                    IF Val(s.soc) <= BATTERY_CRITICAL_SOC_THRESHOLD THEN TRUE ELSE @]

\* Lines 1380-1391: the first run seeds the last values and sends nothing.
\* soc <= threshold raises TypeError for an absent soc: first_run stays True.
FirstRun(m, inp) ==
    LET s  == inp.snap
        m1 == [m EXCEPT !.last_grid_status = s.grid, !.last_soc = s.soc]
    IN  IF s.soc = None
        THEN [m1 EXCEPT !.raised = TRUE]
        ELSE [m1 EXCEPT
                !.battery_low_reported =
                    IF Val(s.soc) <= BATTERY_LOW_SOC_THRESHOLD THEN TRUE ELSE @,
                !.battery_critical_reported =
                    IF Val(s.soc) <= BATTERY_CRITICAL_SOC_THRESHOLD THEN TRUE ELSE @,
                !.first_run = FALSE]

\* Line 1515: grid_status != last_grid_status compares the (code, label)
\* tuples, None included.
GridChanged(grid_status, last) == grid_status # last

\* GridCheck with the actuator request made before the notification.
GridCheckActuatorFirst(m, inp) ==
    LET s == inp.snap IN
    IF m.raised \/ ~GridChanged(s.grid, m.last_grid_status)
    THEN m
    ELSE LET m1 ==
               IF s.grid = None \/ s.grid[1] \notin {0, 2}
               THEN m
               ELSE LET name == IF s.grid[1] = 2 THEN "GRID_DOWN_MSG" ELSE "GRID_UP_MSG"
                        a    == IF m.tuya_controller = None
                                THEN m
                                ELSE turn_devices(m, inp,
                                                  IF s.grid[1] = 2 THEN "off" ELSE "on",
                                                  "grid", 0)
                    IN  send_telegram_message(a, inp, name, 0)
         IN  IF m1.raised THEN m1 ELSE [m1 EXCEPT !.last_grid_status = s.grid]

\* GridCheck with the notification in a try/except of its own: a failed
\* delivery is logged, the request is made and the new value recorded.
GridCheckCaught(m, inp) ==
    LET s == inp.snap IN
    IF m.raised \/ ~GridChanged(s.grid, m.last_grid_status)
    THEN m
    ELSE LET m1 ==
               IF s.grid = None \/ s.grid[1] \notin {0, 2}
               THEN m
               ELSE LET a == send_telegram_message_caught(
                                 m, inp,
                                 IF s.grid[1] = 2 THEN "GRID_DOWN_MSG" ELSE "GRID_UP_MSG", 0)
                    IN  IF a.tuya_controller = None
                        THEN a
                        ELSE turn_devices(a, inp, IF s.grid[1] = 2 THEN "off" ELSE "on",
                                          "grid", 0)
         IN  [m1 EXCEPT !.last_grid_status = s.grid]

\* Lines 1515-1551.
GridCheck(m, inp) ==
    LET s == inp.snap IN
    IF m.raised \/ ~GridChanged(s.grid, m.last_grid_status)
    THEN m
    ELSE LET m1 ==
               IF s.grid = None
               THEN m
               ELSE IF s.grid[1] = 2
               THEN LET a == send_telegram_message(m, inp, "GRID_DOWN_MSG", 0) IN
                    IF a.raised \/ a.tuya_controller = None
                    THEN a
                    ELSE turn_devices(a, inp, "off", "grid", 0)
               ELSE IF s.grid[1] = 0
               THEN LET a == send_telegram_message(m, inp, "GRID_UP_MSG", 0) IN
                    IF a.raised \/ a.tuya_controller = None
                    THEN a
                    ELSE turn_devices(a, inp, "on", "grid", 0)
               ELSE m
         IN  IF m1.raised THEN m1 ELSE [m1 EXCEPT !.last_grid_status = s.grid]

\* BatteryAlert without the falling edge: any sample at or below the
\* threshold alerts while the flag is clear.
BatteryAlertNoEdge(last, soc, threshold, reported) ==
    soc <= threshold /\ ~reported

\* Lines 1555 and 1562: the falling-edge condition of a battery alert.
BatteryAlert(last, soc, threshold, reported) ==
    last > threshold /\ soc <= threshold /\ ~reported

\* Lines 1569 and 1572: the report is reset once SOC is above the threshold.
BatteryReset(soc, threshold, reported) == soc > threshold /\ reported

\* SocCheck with one flag and an elif: the critical test is made only when
\* the low test did not fire, and a critical alert outstanding stands for
\* both.
SocCheckExclusive(m, inp) ==
    LET s == inp.snap IN
    IF m.raised
    THEN m
    ELSE LET m1 ==
               IF s.soc # None /\ m.last_soc # None
               THEN LET soc  == Val(s.soc)
                        last == Val(m.last_soc)
                        outstanding == m.battery_low_reported \/ m.battery_critical_reported
                        a == IF BatteryAlert(last, soc, BATTERY_LOW_SOC_THRESHOLD,
                                             outstanding)
                             THEN LET x == send_telegram_message(m, inp, "LOW_BATTERY_MSG", 0)
                                  IN  IF x.raised THEN x
                                      ELSE [x EXCEPT !.battery_low_reported = TRUE]
                             ELSE IF BatteryAlert(last, soc, BATTERY_CRITICAL_SOC_THRESHOLD,
                                                  outstanding)
                             THEN LET x == send_telegram_message(m, inp, "CRITICAL_BATTERY_MSG", 0)
                                  IN  IF x.raised THEN x
                                      ELSE [x EXCEPT !.battery_critical_reported = TRUE,
                                                     !.battery_low_reported = FALSE]
                             ELSE m
                    IN  IF a.raised THEN a
                        ELSE [a EXCEPT
                                !.battery_low_reported =
                                    IF BatteryReset(soc, BATTERY_LOW_SOC_THRESHOLD, @)
                                    THEN FALSE ELSE @,
                                !.battery_critical_reported =
                                    IF BatteryReset(soc, BATTERY_CRITICAL_SOC_THRESHOLD, @)
                                    THEN FALSE ELSE @]
               ELSE m
         IN  IF m1.raised THEN m1 ELSE [m1 EXCEPT !.last_soc = s.soc]

\* Lines 1553-1576.
SocCheck(m, inp) ==
    LET s == inp.snap IN
    IF m.raised
    THEN m
    ELSE LET m1 ==
               IF s.soc # None /\ m.last_soc # None
               THEN LET soc  == Val(s.soc)
                        last == Val(m.last_soc)
                        a == IF BatteryAlert(last, soc, BATTERY_LOW_SOC_THRESHOLD,
                                             m.battery_low_reported)
                             THEN LET x == send_telegram_message(m, inp, "LOW_BATTERY_MSG", 0)
                                  IN  IF x.raised THEN x
                                      ELSE [x EXCEPT !.battery_low_reported = TRUE]
                             ELSE m
                        b == IF a.raised THEN a
                             ELSE IF BatteryAlert(last, soc, BATTERY_CRITICAL_SOC_THRESHOLD,
                                                  a.battery_critical_reported)
                             THEN LET x == send_telegram_message(a, inp, "CRITICAL_BATTERY_MSG", 0)
                                  IN  IF x.raised THEN x
                                      ELSE [x EXCEPT !.battery_critical_reported = TRUE]
                             ELSE a
                    IN  IF b.raised THEN b
                        ELSE [b EXCEPT
                                !.battery_low_reported =
                                    IF BatteryReset(soc, BATTERY_LOW_SOC_THRESHOLD, @)
                                    THEN FALSE ELSE @,
                                !.battery_critical_reported =
                                    IF BatteryReset(soc, BATTERY_CRITICAL_SOC_THRESHOLD, @)
                                    THEN FALSE ELSE @]
               ELSE m
         IN  IF m1.raised THEN m1 ELSE [m1 EXCEPT !.last_soc = s.soc]

\* VoltageEvent without hysteresis: the recovery band is everything between
\* the two alert thresholds.
VoltageEventNoHysteresis(voltage, reported) ==
    IF voltage < voltage_low_threshold /\ ~reported THEN "VOLTAGE_LOW_MSG"
    ELSE IF voltage > voltage_high_threshold /\ ~reported THEN "VOLTAGE_HIGH_MSG"
    ELSE IF voltage_low_threshold <= voltage /\ voltage <= voltage_high_threshold /\ reported
    THEN "VOLTAGE_NORMAL_MSG"
    ELSE "none"

\* VoltageEvent with the high alert not looking at the flag.
VoltageEventHighRepeats(voltage, reported) ==
    IF voltage < voltage_low_threshold /\ ~reported THEN "VOLTAGE_LOW_MSG"
    ELSE IF voltage > voltage_high_threshold THEN "VOLTAGE_HIGH_MSG"
    ELSE IF voltage_normal_low <= voltage /\ voltage <= voltage_normal_high /\ reported
    THEN "VOLTAGE_NORMAL_MSG"
    ELSE "none"

\* Lines 1592, 1598, 1604: which voltage message a reading asks for, if any.
VoltageEvent(voltage, reported) ==
    IF voltage < voltage_low_threshold /\ ~reported THEN "VOLTAGE_LOW_MSG"
    ELSE IF voltage > voltage_high_threshold /\ ~reported THEN "VOLTAGE_HIGH_MSG"
    ELSE IF voltage_normal_low <= voltage /\ voltage <= voltage_normal_high /\ reported
    THEN "VOLTAGE_NORMAL_MSG"
    ELSE "none"

\* Lines 1580-1609 for one phase.  voltage_phases is None after a failed
\* fetch: voltage_phases.get raises AttributeError.
VoltagePhase(m, inp, phase) ==
    LET s == inp.snap IN
    IF m.raised
    THEN m
    ELSE IF s.volt = None
    THEN [m EXCEPT !.raised = TRUE]
    ELSE LET voltage == s.volt[phase]
             m1 == IF voltage # None /\ Val(voltage) > 0
                   THEN LET ev == VoltageEvent(Val(voltage), m.voltage_issue_reported[phase])
                        IN  IF ev = "none"
                            THEN m
                            ELSE LET x == send_telegram_message(m, inp, ev, phase)
                                 IN  IF x.raised THEN x
                                     ELSE [x EXCEPT !.voltage_issue_reported[phase] =
                                                        (ev # "VOLTAGE_NORMAL_MSG")]
                   ELSE m
         IN  IF m1.raised THEN m1
             ELSE [m1 EXCEPT !.last_voltage_phases[phase] = voltage]

\* Lines 1579-1609: for phase in range(1, 4).
VoltageCheck(m, inp) ==
    ThenPhase(VoltagePhase,
              ThenPhase(VoltagePhase, ThenPhase(VoltagePhase, m, inp, 1), inp, 2),
              inp, 3)

\* Lines 1622-1631 and 1642-1651: one overload check of one phase, on the
\* shared power_issue_counters / power_issue_reported.  value is the power or
\* the current, limit and reset its two thresholds.
OverloadPhase(m, inp, phase, value, limit, reset, name) ==
    IF value > limit
    THEN LET c  == m.power_issue_counters[phase] + 1
             m1 == [m EXCEPT !.power_issue_counters[phase] = c]
         IN  IF c >= 2 /\ ~m.power_issue_reported[phase]
             THEN LET x == send_telegram_message(m1, inp, name, phase)
                  IN  IF x.raised THEN x
                      ELSE [x EXCEPT !.power_issue_reported[phase] = TRUE]
             ELSE m1
    ELSE IF value < reset
    THEN [m EXCEPT !.power_issue_counters[phase] = 0,
                   !.power_issue_reported[phase] = FALSE]
    ELSE m

\* Line 1614 / 1636: both output voltage and output current are present.
HasOutput(s, phase) == s.outv[phase] # None /\ s.outc[phase] # None

\* Lines 1613-1631 for one phase.
PowerPhase(m, inp, phase) ==
    LET s == inp.snap IN
    IF m.raised \/ ~HasOutput(s, phase)
    THEN m
    ELSE OverloadPhase(m, inp, phase, Power(Val(s.outc[phase])),
                       power_limit, power_reset_threshold, "CRITICAL_LOAD_MSG")

\* PowerCheck without the test of the grid code.
PowerCheckAlways(m, inp) ==
    LET s == inp.snap IN
    IF m.raised \/ s.grid = None
    THEN m
    ELSE ThenPhase(PowerPhase,
                   ThenPhase(PowerPhase, ThenPhase(PowerPhase, m, inp, 1), inp, 2),
                   inp, 3)

\* Lines 1611-1631: only while the grid is down.
PowerCheck(m, inp) ==
    LET s == inp.snap IN
    IF m.raised \/ s.grid = None \/ s.grid[1] # 2
    THEN m
    ELSE ThenPhase(PowerPhase,
                   ThenPhase(PowerPhase, ThenPhase(PowerPhase, m, inp, 1), inp, 2),
                   inp, 3)

\* Lines 1635-1651 for one phase.
PassthruPhase(m, inp, phase) ==
    LET s == inp.snap IN
    IF m.raised \/ ~HasOutput(s, phase)
    THEN m
    ELSE OverloadPhase(m, inp, phase, Val(s.outc[phase]),
                       passthru_current_limit, passthru_current_reset_threshold,
                       "PASSTHRU_MSG")

\* Lines 1633-1651: only while the VE.Bus state is PASSTHRU_STATE.
PassthruCheck(m, inp) ==
    LET s == inp.snap IN
    IF m.raised \/ s.state # Some(PASSTHRU_STATE)
    THEN m
    ELSE ThenPhase(PassthruPhase,
                   ThenPhase(PassthruPhase, ThenPhase(PassthruPhase, m, inp, 1), inp, 2),
                   inp, 3)

(* ---------------- the outage schedule ---------------- *)

\* A date string: the day it names and its form, 0 for the zero-padded
\* '%Y-%m-%d' that strftime writes, 1 for another spelling that strptime
\* also reads ('2024-1-2').  strftime of a date is Key(day).
Key(day) == << day, 0 >>

\* _parse_hhmm on a time string, given as minutes after midnight: 'HH:MM' is
\* 0..1439, '24:00' is 1440 and reads as 00:00; anything else raises
\* (None here).  The result is in seconds after midnight.
parse_hhmm(value) ==
    IF value = 1440 THEN Some(0)
    ELSE IF 0 <= value /\ value < 1440 THEN Some(value * 60)
    ELSE None

\* DtekScheduleFetcher._parse_schedule_json, lines 966-986, on the dict read
\* from the image reader's answer.  data.date is None when strptime rejects it;
\* data.is_list says whether data['periods'] is a list.  The result is None or
\* the dict with the fetcher's queue, and with an empty period list in place
\* of periods that are not a list; the items of a period list are not looked
\* at.  (Dates here are of the running year, line 975 does not apply.)
parse_schedule_json(data, queue) ==
    IF data.date = None
    THEN None
    ELSE IF data.queue # "" /\ data.queue # queue
    THEN None
    ELSE Some([date    |-> data.date, queue |-> queue,
               periods |-> IF data.is_list THEN data.periods ELSE << >>])

\* Lines 1032-1071 of fetch_latest_schedule: the answers for the photos are
\* parsed in order and kept by date, a later one replacing an earlier one of
\* the same date.
RECURSIVE schedules_by_date(_, _, _, _)
schedules_by_date(acc, outputs, queue, i) ==
    IF i > Len(outputs)
    THEN acc
    ELSE LET schedule == parse_schedule_json(outputs[i], queue)
             same == IF schedule = None THEN {}
                     ELSE { j \in 1..Len(acc) : acc[j].date = Val(schedule).date }
         IN  schedules_by_date(
                 IF schedule = None THEN acc
                 ELSE IF same = {} THEN Append(acc, Val(schedule))
                 ELSE [j \in 1..Len(acc) |->
                          IF j \in same THEN Val(schedule) ELSE acc[j]],
                 outputs, queue, i + 1)

\* fetch_latest_schedule, lines 988-1071, for the answers given for the photos
\* of the latest post (None, here no schedules, when nothing was kept).
fetch_latest_schedule(outputs, queue) ==
    [raises |-> FALSE, schedules |-> schedules_by_date(<< >>, outputs, queue, 1)]

\* A comparison that looks at the date only.
SameDate(a, b) == a.date = b.date

\* _dtek_schedules_equal on two non-empty dicts.
dtek_schedules_equal(a, b) ==
    a.date = b.date /\ a.queue = b.queue /\ a.periods = b.periods

\* dtek_schedule_cache[ds] = schedule
Put(cache, ds, schedule) ==
    [k \in DOMAIN cache \cup {ds} |-> IF k = ds THEN schedule ELSE cache[k]]

\* Prune that drops nothing.
KeepAll(cache, t) == cache

\* Line 1462 / 1246: keep only today's and tomorrow's keys.
Prune(cache, t) ==
    [k \in DOMAIN cache \cap {Key(DateOf(t)), Key(DateOf(t + SecondsPerDay))} |-> cache[k]]

\* Line 1443.
refresh_seconds == Max2(60, settings.SCHEDULE_REFRESH_MINUTES * 60)

\* Line 1481 without the cap on the exponent.
backoff_uncapped(failures) == Min2(refresh_seconds, 5 * Pow2(failures))

\* Line 1481.
backoff_seconds(failures) == Min2(refresh_seconds, 5 * Pow2(Min2(failures, 6)))

\* Lines 1452-1459: the candidates are written to the cache in order; one
\* that is new or differs from the cached entry is staged for a message.
RECURSIVE MergeSchedules(_, _, _)
MergeSchedules(acc, schedules, i) ==
    IF i > Len(schedules)
    THEN acc
    ELSE LET schedule == schedules[i]
             ds == schedule.date
         IN  IF ds = None
             THEN MergeSchedules(acc, schedules, i + 1)
             ELSE MergeSchedules(
                    [cache   |-> Put(acc.cache, ds, schedule),
                     updated |-> IF ds \notin DOMAIN acc.cache
                                    \/ ~dtek_schedules_equal(acc.cache[ds], schedule)
                                 THEN Append(acc.updated, schedule)
                                 ELSE acc.updated],
                    schedules, i + 1)

\* Lines 1466-1471: one message per staged schedule, each in its own try.
RECURSIVE SendUpdates(_, _, _, _)
SendUpdates(m, inp, updated, i) ==
    IF i > Len(updated)
    THEN m
    ELSE SendUpdates(
            send_telegram_message_caught(m, inp, "SCHEDULE_UPDATE", updated[i].date[1]),
            inp, updated, i + 1)

\* _save_dtek_schedule_cache_to_disk: the file is replaced as a whole, or
\* (an error is swallowed) left as it was.
SaveCache(m, inp) ==
    IF inp.save_ok
    THEN [m EXCEPT !.cache_file = Some([last_updated |-> m.dtek_schedule_last_updated,
                                        schedules    |-> m.dtek_schedule_cache])]
    ELSE m

\* What a cache update did: the clock it read, the keys cached before it, the
\* keys of its candidates and the keys it left.
CacheUpdate(by, at, before, schedules, after) ==
    Some([ by      |-> by,
           at      |-> at,
           schedules |-> schedules,
           before  |-> DOMAIN before,
           fetched |-> { schedules[i].date : i \in 1..Len(schedules) } \ {None},
           after   |-> DOMAIN after ])

\* Lines 1448-1471: a fetch that returned schedules.
ApplySchedules(m, inp) ==
    LET r  == MergeSchedules([cache |-> m.dtek_schedule_cache, updated |-> <<>>],
                             inp.fetch.schedules, 1)
        m1 == [m EXCEPT !.dtek_schedule_cache = Prune(r.cache, inp.now),
                        !.dtek_schedule_last_updated = Some(inp.now),
                        !.update = CacheUpdate("monitor", inp.now, m.dtek_schedule_cache,
                                               inp.fetch.schedules,
                                               Prune(r.cache, inp.now))]
    IN  SendUpdates(Then(SaveCache, m1, inp), inp, r.updated, 1)

\* The refresh with `if schedules:` of line 1448 guarding lines 1472-1473 as
\* well: a fetch that returns nothing counts as a failed one.
ScheduleRefreshEmptyFails(m, inp) ==
    IF m.schedule_fetcher = None \/ inp.now < m.next_schedule_fetch_ts
    THEN m
    ELSE IF inp.fetch.raises \/ inp.fetch.schedules = <<>>
    THEN [m EXCEPT !.schedule_fetch_failures = @ + 1,
                   !.next_schedule_fetch_ts =
                       inp.now + backoff_seconds(m.schedule_fetch_failures + 1)]
    ELSE LET m1 == ApplySchedules(m, inp)
         IN  [m1 EXCEPT !.schedule_fetch_failures = 0,
                        !.next_schedule_fetch_ts = inp.now + refresh_seconds]

\* Lines 1442-1482: the refresh, when it is due.
ScheduleRefresh(m, inp) ==
    IF m.schedule_fetcher = None \/ inp.now < m.next_schedule_fetch_ts
    THEN m
    ELSE IF inp.fetch.raises
    THEN [m EXCEPT !.schedule_fetch_failures = @ + 1,
                   !.next_schedule_fetch_ts =
                       inp.now + backoff_seconds(m.schedule_fetch_failures + 1)]
    ELSE LET m1 == IF inp.fetch.schedules # <<>> THEN ApplySchedules(m, inp) ELSE m
         IN  [m1 EXCEPT !.schedule_fetch_failures = 0,
                        !.next_schedule_fetch_ts = inp.now + refresh_seconds]

\* Line 1485.
trigger_window_seconds == Max2(60, REFRESH_PERIOD * 2)

\* Lines 1503-1505: now lies in the trigger window of a period start.
InTriggerWindow(t, start_dt) ==
    LET delta == t - (start_dt - PRE_OUTAGE_TUYA_OFF_MINUTES * 60)
    IN  0 <= delta /\ delta <= trigger_window_seconds

\* Lines 1493-1512: the periods of one cached schedule, in order.
RECURSIVE TriggerPeriods(_, _, _, _, _)
TriggerPeriods(m, inp, target_date, periods, i) ==
    IF i > Len(periods)
    THEN m
    ELSE LET start_time == parse_hhmm(periods[i][1])
             start_dt   == target_date * SecondsPerDay + Val(start_time)
             m1 == IF start_time # None
                      /\ InTriggerWindow(inp.now, start_dt)
                      /\ start_dt \notin m.pre_outage_triggered
                   THEN LET x == turn_devices(m, inp, "off", "pre", start_dt)
                        IN  IF TuyaRaised(x, inp)
                            THEN x
                            ELSE [x EXCEPT !.pre_outage_triggered = @ \cup {start_dt}]
                   ELSE m
         IN  TriggerPeriods(m1, inp, target_date, periods, i + 1)

\* Lines 1486-1492 for one day_offset.
TriggerDay(m, inp, day_offset) ==
    LET target_date == DateOf(inp.now + day_offset * SecondsPerDay)
        date_str    == Key(target_date)
    IN  IF date_str \in DOMAIN m.dtek_schedule_cache
        THEN TriggerPeriods(m, inp, target_date,
                            m.dtek_schedule_cache[date_str].periods, 1)
        ELSE m

\* Lines 1484-1512: only with a cached schedule and the grid up.
PreOutageTrigger(m, inp) ==
    LET s == inp.snap IN
    IF DOMAIN m.dtek_schedule_cache # {} /\ s.grid # None /\ s.grid[1] = 0
    THEN ThenPhase(TriggerDay, ThenPhase(TriggerDay, m, inp, 0), inp, 1)
    ELSE m

\* Lines 1431-1437: the fetcher exists only with its credentials, and is
\* built once (it keeps the queue it was built with).
Fetcher(m) ==
    IF ~settings.DTEK_CREDS THEN None
    ELSE IF m.schedule_fetcher = None THEN Some(settings.DTEK_QUEUE)
    ELSE m.schedule_fetcher

\* Lines 1409-1512.
ScheduleBlock(m, inp) ==
    IF m.raised \/ ~settings.SCHEDULE_ENABLED \/ m.tuya_controller = None
       \/ schedule_login_in_progress
    THEN m
    ELSE LET m1 == [m EXCEPT
                      !.schedule_fetcher = Fetcher(m),
                      !.pre_outage_triggered =
                          {k \in @ : k > inp.now - SecondsPerDay}]
         IN  Then(PreOutageTrigger, Then(ScheduleRefresh, m1, inp), inp)

\* Lines 1393-1407: the controller is built once the Tuya settings are
\* complete (TuyaOpenAPI.connect may raise), and dropped when they are not.
InitTuya(m, inp) ==
    IF settings.TUYA_DEVICE_IDS # None /\ m.tuya_controller = None
    THEN IF inp.connect_ok
         THEN [m EXCEPT !.tuya_controller = settings.TUYA_DEVICE_IDS]
         ELSE [m EXCEPT !.raised = TRUE]
    ELSE IF settings.TUYA_DEVICE_IDS = None
    THEN [m EXCEPT !.tuya_controller = None]
    ELSE m

(* ---------------- one iteration of monitor() ---------------- *)

\* The machine state at the top of an iteration.
Mach ==
    [ last_grid_status |-> last_grid_status, last_soc |-> last_soc,
      battery_low_reported |-> battery_low_reported,
      battery_critical_reported |-> battery_critical_reported,
      last_voltage_phases |-> last_voltage_phases,
      voltage_issue_reported |-> voltage_issue_reported,
      power_issue_counters |-> power_issue_counters,
      power_issue_reported |-> power_issue_reported,
      reset_last_values |-> reset_last_values,
      dtek_schedule_cache |-> dtek_schedule_cache,
      dtek_schedule_last_updated |-> dtek_schedule_last_updated,
      first_run |-> first_run, tuya_controller |-> tuya_controller,
      schedule_fetcher |-> schedule_fetcher,
      next_schedule_fetch_ts |-> next_schedule_fetch_ts,
      schedule_fetch_failures |-> schedule_fetch_failures,
      pre_outage_triggered |-> pre_outage_triggered,
      monitor_running |-> TRUE, cache_file |-> cache_file,
      out |-> <<>>, nsend |-> 0, ntuya |-> 0, raised |-> FALSE, update |-> None,
      failed |-> <<>> ]

\* Lines 1312-1326.  get_status is called with VICTRON_API_URL and API_KEY,
\* locals that line 1337 binds: in the first iteration the call raises
\* UnboundLocalError, and so does the except clause's sleep(REFRESH_PERIOD),
\* which ends the task.
ResetLastValues(m, inp) ==
    IF ~m.reset_last_values
    THEN m
    ELSE LET m1 == [m EXCEPT
                      !.reset_last_values = FALSE,
                      !.last_grid_status = None, !.last_soc = None,
                      !.battery_low_reported = FALSE,
                      !.battery_critical_reported = FALSE,
                      !.last_voltage_phases = [p \in Phases |-> None],
                      !.power_issue_counters = [p \in Phases |-> 0],
                      !.power_issue_reported = [p \in Phases |-> FALSE],
                      !.voltage_issue_reported = [p \in Phases |-> FALSE]]
         IN  IF cycle_no = 0
             THEN [m1 EXCEPT !.raised = TRUE, !.monitor_running = FALSE]
             ELSE [m1 EXCEPT !.last_grid_status = inp.snap0.grid,
                             !.last_soc = inp.snap0.soc]

\* Lines 1343-1345: without the essential settings monitor() returns.
EssentialCheck(m, inp) ==
    IF m.raised \/ settings.ESSENTIAL
    THEN m
    ELSE [m EXCEPT !.raised = TRUE, !.monitor_running = FALSE]

\* Lines 1310-1656: the body of the while loop.
Body(m, inp) ==
    IF m.raised THEN m
    ELSE IF m.first_run THEN FirstRun(m, inp)
    ELSE Then(PassthruCheck,
           Then(PowerCheck,
             Then(VoltageCheck,
               Then(SocCheck,
                 Then(GridCheck,
                   Then(ScheduleBlock, Then(InitTuya, m, inp), inp),
                   inp), inp), inp), inp), inp)

RunCycle(inp) ==
    Then(Body, Then(EssentialCheck, Then(ResetLastValues, Mach, inp), inp), inp)

\* One polling cycle: the iteration and the sleep that ends it.  step is the
\* time the cycle takes, at least REFRESH_PERIOD.
Cycle(inp, step) ==
    /\ monitor_running
    /\ \E m \in {RunCycle(inp)} :
       /\ last_grid_status' = m.last_grid_status
       /\ last_soc' = m.last_soc
       /\ battery_low_reported' = m.battery_low_reported
       /\ battery_critical_reported' = m.battery_critical_reported
       /\ last_voltage_phases' = m.last_voltage_phases
       /\ voltage_issue_reported' = m.voltage_issue_reported
       /\ power_issue_counters' = m.power_issue_counters
       /\ power_issue_reported' = m.power_issue_reported
       /\ reset_last_values' = m.reset_last_values
       /\ dtek_schedule_cache' = m.dtek_schedule_cache
       /\ dtek_schedule_last_updated' = m.dtek_schedule_last_updated
       /\ first_run' = m.first_run
       /\ tuya_controller' = m.tuya_controller
       /\ schedule_fetcher' = m.schedule_fetcher
       /\ next_schedule_fetch_ts' = m.next_schedule_fetch_ts
       /\ schedule_fetch_failures' = m.schedule_fetch_failures
       /\ pre_outage_triggered' = m.pre_outage_triggered
       /\ monitor_running' = m.monitor_running
       /\ cache_file' = m.cache_file
       /\ out' = m.out
       /\ failed' = m.failed
       /\ cache_update' = m.update
       /\ pre_invoked' = pre_invoked \cup
              { m.out[i].n : i \in { j \in 1..Len(m.out) :
                                       m.out[j].type = "tuya" /\ m.out[j].by = "pre" } }
    /\ snap' = inp.snap
    /\ accepted_grid' = IF inp.snap.grid # None THEN inp.snap.grid ELSE accepted_grid
    /\ expected_grid' = IF inp.snap.grid # None /\ inp.snap.grid[1] \in {0, 2}
                        THEN inp.snap.grid[1] ELSE expected_grid
    /\ cycle_no' = cycle_no + 1
    /\ now' = now + step
    /\ UNCHANGED << schedule_login_in_progress, settings, menu_no,
                    sequences, monitor_awaits, request_no, orphans >>

(* ---------------- the schedule commands of the menu ---------------- *)

\* _load_dtek_schedule_cache_from_disk, lines 1139-1156: the cache and the
\* timestamp after a load.  A missing file changes nothing; a null
\* last_updated keeps the timestamp.
load_dtek_schedule_cache_from_disk(cache, last_updated, file) ==
    IF file = None
    THEN [cache |-> cache, last_updated |-> last_updated]
    ELSE [cache |-> Val(file).schedules,
          last_updated |-> IF Val(file).last_updated = None
                           THEN last_updated ELSE Val(file).last_updated]

\* show_dtek_schedule_cache, lines 1179-1199: an empty cache is loaded from
\* the file before it is printed.
show_dtek_schedule_cache(cache, last_updated, file) ==
    IF DOMAIN cache = {}
    THEN load_dtek_schedule_cache_from_disk(cache, last_updated, file)
    ELSE [cache |-> cache, last_updated |-> last_updated]

\* Menu option 11.
ShowCache ==
    /\ menu_no < MaxMenu
    /\ \E r \in {show_dtek_schedule_cache(dtek_schedule_cache,
                                          dtek_schedule_last_updated, cache_file)} :
        /\ dtek_schedule_cache' = r.cache
        /\ dtek_schedule_last_updated' = r.last_updated
    /\ cache_update' = None
    /\ menu_no' = menu_no + 1
    /\ UNCHANGED << last_grid_status, last_soc, battery_low_reported,
                    battery_critical_reported, last_voltage_phases,
                    voltage_issue_reported, power_issue_counters,
                    power_issue_reported, reset_last_values,
                    schedule_login_in_progress, first_run, tuya_controller,
                    schedule_fetcher, next_schedule_fetch_ts,
                    schedule_fetch_failures, pre_outage_triggered,
                    monitor_running, settings, cache_file, now, snap, out,
                    cycle_no, accepted_grid, expected_grid, pre_invoked, failed,
                    sequences, monitor_awaits, request_no, orphans >>

\* Menu option 12, force_fetch_dtek_schedule, lines 1202-1253.  Without the
\* credentials the command only prints.  The fetch takes `step` seconds; when
\* it raises the command returns.  Otherwise the candidates are written to the
\* cache, the cache is pruned by the clock read after the fetch and saved, and
\* the command ends with show_dtek_schedule_cache.
ForceFetch(fetch, save_ok, step) ==
    /\ menu_no < MaxMenu
    /\ settings.DTEK_CREDS
    /\ LET t == now + step
           updates == ~fetch.raises /\ fetch.schedules # <<>>
           merged == MergeSchedules([cache |-> dtek_schedule_cache, updated |-> <<>>],
                                    fetch.schedules, 1).cache
           pruned == IF updates THEN Prune(merged, t) ELSE dtek_schedule_cache
           stamp  == IF updates THEN Some(t) ELSE dtek_schedule_last_updated
           file   == IF updates /\ save_ok
                     THEN Some([last_updated |-> stamp, schedules |-> pruned])
                     ELSE cache_file
       IN  /\ \E r \in {IF fetch.raises
                        THEN [cache |-> pruned, last_updated |-> stamp]
                        ELSE show_dtek_schedule_cache(pruned, stamp, file)} :
               /\ dtek_schedule_cache' = r.cache
               /\ dtek_schedule_last_updated' = r.last_updated
           /\ cache_file' = file
           /\ cache_update' = IF updates
                              THEN CacheUpdate("menu", t, dtek_schedule_cache,
                                               fetch.schedules, pruned)
                              ELSE None
           /\ now' = t
    /\ menu_no' = menu_no + 1
    /\ UNCHANGED << last_grid_status, last_soc, battery_low_reported,
                    battery_critical_reported, last_voltage_phases,
                    voltage_issue_reported, power_issue_counters,
                    power_issue_reported, reset_last_values,
                    schedule_login_in_progress, first_run, tuya_controller,
                    schedule_fetcher, next_schedule_fetch_ts,
                    schedule_fetch_failures, pre_outage_triggered,
                    monitor_running, settings, snap, out, cycle_no,
                    accepted_grid, expected_grid, pre_invoked, failed,
                    sequences, monitor_awaits, request_no, orphans >>

(* ---------------- inputs ---------------- *)

\* get_status after a failed request or a parse error: every field None.
FailedSnapshot ==
    [grid |-> None, soc |-> None, volt |-> None, outv |-> None, outc |-> None,
     state |-> None]

\* The snapshots get_status builds from a response: the three dicts always
\* exist, any record may be missing.
Snapshots(grids, socs, volts, outvs, outcs, states) ==
    [grid : grids, soc : socs, volt : [Phases -> volts],
     outv : [Phases -> outvs], outc : [Phases -> outcs], state : states]

\* A cycle with its inputs drawn from the input space I, in a run of at most
\* n cycles.
CycleWithin(I, n) ==
    /\ cycle_no < n
    /\ \E s \in I.snaps, sf \in I.sfails, tr \in I.traises, f \in I.fetches,
          c \in I.connects, sv \in I.saves, step \in I.steps :
           \E s0 \in (IF reset_last_values THEN I.snaps ELSE {s}) :
               \E inp \in {[snap |-> s, snap0 |-> s0, sfail |-> sf, traise |-> tr,
                             fetch |-> f, connect_ok |-> c, save_ok |-> sv,
                             now |-> now]} :
                   Cycle(inp, step)

CycleIn(I) == CycleWithin(I, MaxCycles)

\* The state after module import and the first lines of monitor().
InitWith(Settings, StartTimes, CacheFiles) ==
    /\ last_grid_status = None
    /\ last_soc = None
    /\ battery_low_reported = FALSE
    /\ battery_critical_reported = FALSE
    /\ last_voltage_phases = [p \in Phases |-> None]
    /\ voltage_issue_reported = [p \in Phases |-> FALSE]
    /\ power_issue_counters = [p \in Phases |-> 0]
    /\ power_issue_reported = [p \in Phases |-> FALSE]
    /\ reset_last_values = FALSE
    /\ schedule_login_in_progress = FALSE
    /\ dtek_schedule_cache = <<>>
    /\ dtek_schedule_last_updated = None
    /\ first_run = TRUE
    /\ tuya_controller = None
    /\ schedule_fetcher = None
    /\ next_schedule_fetch_ts = 0
    /\ schedule_fetch_failures = 0
    /\ pre_outage_triggered = {}
    /\ monitor_running = TRUE
    /\ settings \in Settings
    /\ cache_file \in CacheFiles
    /\ now \in StartTimes
    /\ snap = FailedSnapshot
    /\ out = <<>>
    /\ cycle_no = 0
    /\ accepted_grid = None
    /\ expected_grid = -1
    /\ cache_update = None
    /\ pre_invoked = {}
    /\ menu_no = 0
    /\ failed = <<>>
    /\ sequences = [d \in Devices |-> NoSequence]
    /\ monitor_awaits = None
    /\ request_no = 0
    /\ orphans = [d \in Devices |-> {}]

\* settings.ini: the options the model varies.
BaseSettings ==
    [ ESSENTIAL |-> TRUE, TUYA_DEVICE_IDS |-> None,
      SCHEDULE_ENABLED |-> FALSE, DTEK_CREDS |-> FALSE, DTEK_QUEUE |-> "3.1",
      SCHEDULE_REFRESH_MINUTES |-> 60,
      QUIET_HOURS_START |-> Some(22), QUIET_HOURS_END |-> Some(6),
      QUIET_DAYS |-> {} ]

NoFetch == [raises |-> FALSE, schedules |-> <<>>]

(* ---------------- reading the observations ---------------- *)

\* The positions of o that hold message `name`.
Sends(o, name) == { i \in 1..Len(o) : o[i].type = "msg" /\ o[i].name = name }

Sent(o, name) == Sends(o, name) # {}

\* The positions of o that hold a turn_devices_off / turn_devices_on request.
Requests(o, name) == { i \in 1..Len(o) : o[i].type = "tuya" /\ o[i].name = name }

Requested(o, name) == Requests(o, name) # {}

\* The step is a polling cycle.
IsCycle == cycle_no' = cycle_no + 1

GridCode(g) == IF g = None THEN -1 ELSE g[1]

(* ---------------- Spec: the grid signal ---------------- *)

Labels == {"Grid lost", "Grid alarm"}

\* formattedValue is whatever the API sends for the code: 0 is up, 2 is
\* down, 1 stands for every other code.
GridValues == {None} \cup ({0, 1, 2} \X Labels)

TuyaSettings == {None, Some({"plug1", "plug2"})}

\* Quiet hours set with the menu (22 to 6), or left empty.
QuietSettings == { << Some(22), Some(6) >>, << None, None >> }

SignalSettings ==
    { [BaseSettings EXCEPT !.TUYA_DEVICE_IDS = t, !.QUIET_HOURS_START = q[1],
                           !.QUIET_HOURS_END = q[2]] :
        t \in TuyaSettings, q \in QuietSettings }

GridInputs ==
    [ snaps    |-> Snapshots(GridValues, {None, Some(50)}, {Some(230000)},
                             {None}, {None}, {None})
                   \cup {FailedSnapshot},
      sfails   |-> {{}, {1}},
      traises  |-> {{}, {1}},
      fetches  |-> {NoFetch},
      connects |-> {TRUE},
      saves    |-> {TRUE},
      steps    |-> {REFRESH_PERIOD} ]

Init == InitWith(SignalSettings, {0}, {None})

Next == CycleIn(GridInputs)

Spec == Init /\ [][Next]_vars

(* ---------------- SpecSoc: the battery signal ---------------- *)

SocValues == {None, Some(5), Some(10), Some(15), Some(20), Some(21)}

SocInputs ==
    [ snaps    |-> Snapshots({<< 0, "Grid lost" >>, << 2, "Grid lost" >>}, SocValues,
                             {Some(230000)}, {None}, {None}, {None})
                   \cup {FailedSnapshot},
      sfails   |-> {{}, {1}, {2}},
      traises  |-> {{}},
      fetches  |-> {NoFetch},
      connects |-> {TRUE},
      saves    |-> {TRUE},
      steps    |-> {REFRESH_PERIOD} ]

SocSettings == { s \in SignalSettings : s.TUYA_DEVICE_IDS = None }

InitSoc == InitWith(SocSettings, {0}, {None})

NextSoc == CycleIn(SocInputs)

SpecSoc == InitSoc /\ [][NextSoc]_vars

(* ---------------- claims on the grid signal (Spec) ---------------- *)

\* C1: when a cycle that observed grid code 2 and sent the grid-down
\* notification is followed by a cycle that observes grid code 2 again, the
\* two cycles together send exactly one grid-down notification and, with a
\* controller, request turn_devices_off exactly once.
C1_TwoDownCyclesOneEvent ==
    [][ ( /\ IsCycle
          /\ GridCode(snap.grid) = 2
          /\ GridCode(snap'.grid) = 2
          /\ Sent(out, "GRID_DOWN_MSG") )
        => /\ Cardinality(Sends(out, "GRID_DOWN_MSG"))
                + Cardinality(Sends(out', "GRID_DOWN_MSG")) = 1
           /\ tuya_controller # None
                => Cardinality(Requests(out, "off"))
                     + Cardinality(Requests(out', "off")) = 1 ]_vars

\* C9: a cycle sends a grid-down or grid-up notification only if its grid
\* code differs from the grid code of the most recent earlier snapshot that
\* had a grid value.
C9_GridEventOnlyOnCodeChange ==
    [][ ( /\ IsCycle
          /\ Sent(out', "GRID_DOWN_MSG") \/ Sent(out', "GRID_UP_MSG") )
        => GridCode(snap'.grid) # GridCode(accepted_grid) ]_vars

\* C10: a cycle whose fetch failed (every field of the snapshot absent)
\* leaves the signal state unchanged.
C10_FailedFetchKeepsSignalState ==
    [][ (IsCycle /\ snap' = FailedSnapshot)
        => UNCHANGED << last_grid_status, last_soc, battery_low_reported,
                        battery_critical_reported, voltage_issue_reported,
                        power_issue_counters, power_issue_reported >> ]_vars

(* ---------------- claims on the battery signal (SpecSoc) ---------------- *)

\* One threshold of C2 over a step: the alert `name` needs a recorded
\* previous sample above the threshold, a current sample at or below it and a
\* clear flag; it is sent once and sets the flag; the flag is cleared only by
\* a sample above the threshold.
SocRule(name, threshold, reported, reported_after) ==
    /\ Sent(out', name)
         => /\ last_soc # None /\ Val(last_soc) > threshold
            /\ snap'.soc # None /\ Val(snap'.soc) <= threshold
            /\ ~reported
            /\ reported_after
            /\ Cardinality(Sends(out', name)) = 1
    /\ (reported /\ snap'.soc # None /\ Val(snap'.soc) <= threshold)
         => ~Sent(out', name)
    /\ (reported /\ ~reported_after)
         => snap'.soc # None /\ Val(snap'.soc) > threshold

C8_FirstCycleIsPriming ==
    cycle_no = 1 =>
        /\ last_grid_status = snap.grid
        /\ last_soc = snap.soc
        /\ battery_low_reported
             = (snap.soc # None /\ Val(snap.soc) <= BATTERY_LOW_SOC_THRESHOLD)
        /\ battery_critical_reported
             = (snap.soc # None /\ Val(snap.soc) <= BATTERY_CRITICAL_SOC_THRESHOLD)
        /\ out = <<>>

\* The first cycle read a grid-down snapshot with a critical SOC.
C8_Witness ==
    /\ cycle_no = 1
    /\ GridCode(snap.grid) = 2
    /\ snap.soc = Some(5)
    /\ battery_low_reported /\ battery_critical_reported
    /\ ~first_run

(* ---------------- SpecVolt: the input voltage of the phases ---------------- *)

\* Readings of phase 1 in mV: absent, zero, and the two sides of each of the
\* four thresholds 207.0 V, 219.65 V, 240.35 V and 253.0 V.
VoltValues ==
    {None, Some(0), Some(206999), Some(207000), Some(219649), Some(219650),
     Some(240350), Some(240351), Some(253000), Some(253001)}

\* Phase 2 is low or nominal, phase 3 is not wired.
VoltSnapshots ==
    { [grid |-> << 0, "Grid lost" >>, soc |-> Some(50),
       volt |-> [p \in Phases |-> IF p = 1 THEN v ELSE IF p = 2 THEN w ELSE None],
       outv |-> [p \in Phases |-> None], outc |-> [p \in Phases |-> None],
       state |-> None] :
        v \in VoltValues, w \in {Some(206999), Some(230000)} }

VoltInputs ==
    [ snaps    |-> VoltSnapshots \cup {FailedSnapshot},
      sfails   |-> {{}, {1}},
      traises  |-> {{}},
      fetches  |-> {NoFetch},
      connects |-> {TRUE},
      saves    |-> {TRUE},
      steps    |-> {REFRESH_PERIOD} ]

InitVolt == InitWith(SocSettings, {0}, {None})

NextVolt == CycleIn(VoltInputs)

SpecVolt == InitVolt /\ [][NextVolt]_vars

\* The dead zones: at or above the low alert threshold and below the recovery
\* band, or above the recovery band and at or below the high alert threshold.
InDeadZone(v) ==
    \/ NOMINAL_VOLTAGE * VOLTAGE_LOW_THRESHOLD <= v /\ v < NOMINAL_VOLTAGE * 955
    \/ NOMINAL_VOLTAGE * 1045 < v /\ v <= NOMINAL_VOLTAGE * VOLTAGE_HIGH_THRESHOLD

VoltageMsgs == {"VOLTAGE_LOW_MSG", "VOLTAGE_HIGH_MSG", "VOLTAGE_NORMAL_MSG"}

\* The positions of o that hold a voltage message of the phase.
VoltageSends(o, phase) ==
    { i \in 1..Len(o) : o[i].type = "msg" /\ o[i].name \in VoltageMsgs
                        /\ o[i].n = phase }

\* C3: a cycle whose reading of a phase lies in a dead zone sends no voltage
\* message for the phase and leaves the phase's reported flag as it was.
C3_DeadZoneIsSilent ==
    [][ IsCycle =>
          \A p \in Phases :
            ( /\ snap'.volt # None
              /\ snap'.volt[p] # None
              /\ InDeadZone(Val(snap'.volt[p])) )
            => /\ VoltageSends(out', p) = {}
               /\ voltage_issue_reported'[p] = voltage_issue_reported[p] ]_vars

\* A low alert stands for phase 1 and the last cycle ran all its checks on a
\* reading at the low alert threshold, in the dead zone.
C3_Witness ==
    /\ ~first_run
    /\ snap.volt # None
    /\ snap.volt[1] = Some(207000)
    /\ last_voltage_phases[1] = Some(207000)
    /\ voltage_issue_reported[1]
    /\ VoltageSends(out, 1) = {}

(* ---------------- SpecPower: the load while the grid is down ---------------- *)

\* Output currents of phase 1 in mA: about 3000 W, 3900 W, 4200 W and 7360 W
\* at 230 V.
CurrentValues == {Some(13043), Some(16957), Some(18261), Some(32000)}

PowerSnapshots ==
    { [grid |-> << g, "Grid lost" >>, soc |-> Some(50),
       volt |-> [p \in Phases |-> Some(230000)],
       outv |-> [p \in Phases |-> IF p = 1 THEN Some(230000) ELSE None],
       outc |-> [p \in Phases |-> IF p = 1 THEN c ELSE None],
       state |-> st] :
        g \in {0, 2}, c \in CurrentValues, st \in {None, Some(PASSTHRU_STATE)} }

\* Every message of these cycles is delivered.
PowerInputs ==
    [ snaps    |-> PowerSnapshots \cup {FailedSnapshot},
      sfails   |-> {{}},
      traises  |-> {{}},
      fetches  |-> {NoFetch},
      connects |-> {TRUE},
      saves    |-> {TRUE},
      steps    |-> {REFRESH_PERIOD} ]

PowerSettings == { s \in SocSettings : ~GetintRaises(s) }

InitPower == InitWith(PowerSettings, {0}, {None})

NextPower == CycleIn(PowerInputs)

SpecPower == InitPower /\ [][NextPower]_vars

\* The snapshot has the grid down and an output power reading for the phase.
DownWithPower(s, phase) ==
    /\ GridCode(s.grid) = 2
    /\ s.outv # None /\ s.outc # None
    /\ HasOutput(s, phase)

\* The positions of o that hold the critical load alert of the phase.
LoadSends(o, phase) ==
    { i \in 1..Len(o) : o[i].type = "msg" /\ o[i].name = "CRITICAL_LOAD_MSG"
                        /\ o[i].n = phase }

\* C4: with the grid down, after the first run, for each phase: a cycle above 0.98*MAX_POWER that
\* starts with counter 0 and no alert outstanding sends no alert and counts
\* one breach; the next cycle above 0.98*MAX_POWER sends exactly one critical
\* load alert; with the alert outstanding a cycle at or above 0.80*MAX_POWER
\* keeps it and sends nothing; a cycle below 0.80*MAX_POWER clears the flag and
\* resets the counter.
C4_LoadAlertHysteresis ==
    [][ IsCycle =>
          \A p \in Phases :
            (~first_run /\ DownWithPower(snap', p)) =>
              LET power == NOMINAL_VOLTAGE * Val(snap'.outc[p]) IN
              /\ ( /\ power > MAX_POWER * 980
                   /\ power_issue_counters[p] = 0 /\ ~power_issue_reported[p] )
                 => /\ LoadSends(out', p) = {}
                    /\ power_issue_counters'[p] = 1
                    /\ ~power_issue_reported'[p]
              /\ ( /\ power > MAX_POWER * 980
                   /\ power_issue_counters[p] = 1 /\ ~power_issue_reported[p] )
                 => /\ Cardinality(LoadSends(out', p)) = 1
                    /\ power_issue_reported'[p]
              /\ ( power >= MAX_POWER * 800 /\ power_issue_reported[p] )
                 => /\ LoadSends(out', p) = {}
                    /\ power_issue_reported'[p]
              /\ power < MAX_POWER * 800
                 => /\ power_issue_counters'[p] = 0
                    /\ ~power_issue_reported'[p] ]_vars

(* ---------------- SpecSched: the outage schedule around midnight ---------------- *)

\* Day 1 stands for 2024-01-01, day 2 for 2024-01-02, day 3 for 2024-01-03.
\* A schedule of the configured queue for a day, with its periods as pairs of
\* minutes after midnight.
Schedule(day, periods) == [date |-> Key(day), queue |-> "3.1", periods |-> periods]

\* What fetch_latest_schedule gives: nothing readable, an exception, the
\* schedules of days 1 and 2 (an outage of day 2 starts at 00:04), the
\* schedule of day 3, or a changed schedule of day 2.
SchedFetches ==
    { NoFetch,
      [raises |-> TRUE, schedules |-> <<>>],
      [raises |-> FALSE,
       schedules |-> << Schedule(1, << << 600, 660 >> >>),
                        Schedule(2, << << 4, 64 >> >>) >>],
      [raises |-> FALSE, schedules |-> << Schedule(3, << << 600, 660 >> >>) >>],
      [raises |-> FALSE, schedules |-> << Schedule(2, << << 4, 124 >> >>) >>] }

SchedSettings ==
    [BaseSettings EXCEPT !.TUYA_DEVICE_IDS = Some({"plug1", "plug2"}),
                         !.SCHEDULE_ENABLED = TRUE, !.DTEK_CREDS = TRUE,
                         !.SCHEDULE_REFRESH_MINUTES = 1]

\* A cycle takes 30 seconds; a request to the plugs may raise.
SchedInputs ==
    [ snaps    |-> Snapshots({<< 0, "Grid lost" >>, << 2, "Grid lost" >>}, {Some(50)},
                             {Some(230000)}, {None}, {None}, {None}),
      sfails   |-> {{}},
      traises  |-> {{}, {1}},
      fetches  |-> SchedFetches,
      connects |-> {TRUE},
      saves    |-> {TRUE},
      steps    |-> {30} ]

\* The cache file is missing, or was written on day 1.
SchedFiles ==
    { None,
      Some([last_updated |-> Some(SecondsPerDay),
            schedules |-> Put(<<>>, Key(1), Schedule(1, << << 600, 660 >> >>))]) }

\* The monitor starts on day 1 at 23:59:00.
InitSched == InitWith({SchedSettings}, {2 * SecondsPerDay - 60}, SchedFiles)

NextSched ==
    \/ cycle_no < MaxSchedCycles /\ CycleIn(SchedInputs)
    \/ \E f \in SchedFetches, sv \in BOOLEAN : ForceFetch(f, sv, 30)
    \/ ShowCache

SpecSched == InitSched /\ [][NextSched]_vars

\* The positions of o that hold a turn_devices_off request of the pre-outage
\* trigger.
PreRequests(o) == { i \in 1..Len(o) : o[i].type = "tuya" /\ o[i].by = "pre" }

\* C5: the pre-outage trigger requests turn_devices_off at most once for a
\* period start: a cycle makes no request for a period start that an earlier
\* cycle made one for, and no two requests for the same period start, whether
\* or not a request raised.
C5_TriggerOncePerPeriodStart ==
    [][ IsCycle =>
          \A i \in PreRequests(out') :
            /\ out'[i].n \notin pre_invoked
            /\ \A j \in PreRequests(out') : out'[j].n = out'[i].n => j = i ]_vars

UpdateSentFor(o, schedule) ==
    \E i \in Sends(o, "SCHEDULE_UPDATE") : o[i].n = schedule.date[1]

RawOutputs ==
    { [date |-> Key(2), queue |-> "3.1", is_list |-> TRUE,
       periods |-> << << 600, 660 >> >>],
      [date |-> None, queue |-> "3.1", is_list |-> TRUE,
       periods |-> << << 600, 660 >> >>],
      [date |-> Key(2), queue |-> "2.2", is_list |-> TRUE,
       periods |-> << << 700, 760 >> >>],
      [date |-> Key(2), queue |-> "3.1", is_list |-> FALSE, periods |-> << >>],
      [date |-> Key(2), queue |-> "", is_list |-> TRUE,
       periods |-> << << 600, 1500 >> >>] }

\* One or two photos are read (line 1016).
ValidFetches ==
    { fetch_latest_schedule(o, BaseSettings.DTEK_QUEUE) :
        o \in { << a >> : a \in RawOutputs }
               \cup { << a, b >> : a \in RawOutputs, b \in RawOutputs } }

ValidInputs == [SchedInputs EXCEPT !.fetches = ValidFetches, !.traises = {{}}]

InitValid == InitWith({SchedSettings}, {2 * SecondsPerDay - 60}, {None})

NextValid == CycleIn(ValidInputs)

SpecValid == InitValid /\ [][NextValid]_vars

\* A period whose start and end _parse_hhmm reads.
ParseablePeriod(p) == parse_hhmm(p[1]) # None /\ parse_hhmm(p[2]) # None

\* C20: a schedule candidate that fails validation is discarded and never
\* reaches the cache.  Here for a candidate with a period time that does not
\* parse: no cached schedule has such a period.
C20_InvalidCandidateNeverCached ==
    \A k \in DOMAIN dtek_schedule_cache :
        \A i \in 1..Len(dtek_schedule_cache[k].periods) :
            ParseablePeriod(dtek_schedule_cache[k].periods[i])

(* ---------------- SpecGate: quiet hours ---------------- *)

\* Both bounds set to any hour, no quiet day.
GateSettings ==
    { [BaseSettings EXCEPT !.QUIET_HOURS_START = Some(a), !.QUIET_HOURS_END = Some(b)] :
        a \in 0..23, b \in 0..23 }

GateInputs ==
    [ snaps    |-> Snapshots({<< 0, "Grid lost" >>, << 2, "Grid lost" >>}, {Some(50)},
                             {Some(230000)}, {None}, {None}, {None}),
      sfails   |-> {{}},
      traises  |-> {{}},
      fetches  |-> {NoFetch},
      connects |-> {TRUE},
      saves    |-> {TRUE},
      steps    |-> {REFRESH_PERIOD} ]

\* The monitor starts at any full hour of a Monday.
InitGate == InitWith(GateSettings, { h * 3600 : h \in 0..23 }, {None})

NextGate == cycle_no < MaxGateCycles /\ CycleIn(GateInputs)

SpecGate == InitGate /\ [][NextGate]_vars

\* The quiet window [start, end), wrapping past midnight when start > end.
InQuietWindow(start, end, hour) ==
    IF start > end
    THEN hour >= start \/ hour < end
    ELSE start <= hour /\ hour < end

\* C7: on a day that is not a quiet day, with both bounds set, a message is
\* sent silently exactly when the hour is in [start, end), and when
\* start > end exactly when hour >= start or hour < end.
C7_SilentExactlyInQuietWindow ==
    [][ IsCycle =>
          \A i \in 1..Len(out') :
            out'[i].type = "msg" =>
              out'[i].flag = InQuietWindow(Val(settings.QUIET_HOURS_START),
                                           Val(settings.QUIET_HOURS_END),
                                           current_hour(now)) ]_vars

(* ---------------- C15: errors are contained per signal ---------------- *)

\* C15: within one cycle an error raised while one signal is evaluated does
\* not keep the other signals from being evaluated.  Observed on the battery
\* signal, which records every sample it evaluates in last_soc: a cycle after
\* the priming one that read a state of charge has evaluated the battery
\* signal, whatever happened to the grid signal before it.  (No snapshot of
\* Spec makes the battery signal itself send.)
C15_SignalErrorsAreContained ==
    [][ (IsCycle /\ ~first_run /\ monitor_running' /\ snap'.soc # None)
            => last_soc' = snap'.soc ]_vars

(* ---------------- SpecTuya: the retry sequences of one request ---------------- *)

TuyaOnSettings ==
    { [BaseSettings EXCEPT !.TUYA_DEVICE_IDS = Some(Devices)] }

\* The cycles of this specification read a steady snapshot; the cycle that
\* sees a change and calls the actuator is the one TurnDevices suspends.
TuyaInputs ==
    [ snaps    |-> Snapshots({<< 0, "Grid lost" >>}, {Some(50)}, {Some(230000)},
                             {None}, {None}, {None}),
      sfails   |-> {{}},
      traises  |-> {{}},
      fetches  |-> {NoFetch},
      connects |-> {TRUE},
      saves    |-> {TRUE},
      steps    |-> {REFRESH_PERIOD} ]

\* The answers to a command in this specification: the token stays valid.
Responses == {"sent", "raise"}

Statuses == {"match", "nomatch", "raise"}

InitTuyaSpec == InitWith(TuyaOnSettings, {0}, {None})

\* The monitor runs its cycles while it is not suspended in a request.
NextTuya ==
    \/ monitor_awaits = None /\ CycleWithin(TuyaInputs, MaxTuyaCycles)
    \/ \E name \in {"on", "off"} : TurnDevices(name)
    \/ DeviceStep(Responses, Statuses)
    \/ GatherDone

SpecTuya == InitTuyaSpec /\ [][NextTuya]_vars

\* C11: ensure_desired_state for one device ends after at most max_retries
\* send-then-verify attempts; it returns right after the first verification
\* that reports the desired value; and when every attempt fails to verify it
\* logs an error and returns normally.
C11_RetrySequenceIsBounded ==
    \A d \in Devices :
        LET s == sequences[d] IN
        /\ s.attempt <= max_retries
        /\ (s.state = "running" /\ s.attempt > 0) => ~s.verified
        /\ (s.state = "returned" /\ ~s.verified)
             => (s.attempt = max_retries /\ s.error_logged)
        /\ s.error_logged => (s.state = "returned" /\ ~s.verified)

\* One task returned on a verified attempt before the budget was used up,
\* the other used all max_retries attempts and returned with the error log.
C11_Witness ==
    /\ sequences["plug1"].state = "returned"
    /\ sequences["plug1"].verified
    /\ sequences["plug1"].attempt = 3
    /\ sequences["plug2"].state = "returned"
    /\ sequences["plug2"].error_logged
    /\ sequences["plug2"].attempt = max_retries

\* C12: a device that does not reach the desired state does not block the
\* polling loop: while its retry sequence is running (a verification has
\* failed and the task goes on retrying), the monitor is not held in the
\* request but goes on with its cycle.
C12_RetriesDoNotHoldTheLoop ==
    \A d \in Devices :
        (sequences[d].state = "running" /\ sequences[d].attempt >= 1)
            => monitor_awaits = None

\* C13: within one request the devices are driven independently and
\* concurrently: whatever a device does (stuck, or its transport failing), the
\* task of any other device is not touched by it.  A task changes only by an
\* attempt of its own, made while it runs, and ends only by its own verified
\* attempt, its own last attempt or its own exception; with C11 every task
\* so has its whole budget of max_retries attempts.
C13_DevicesAreIndependent ==
    [][ request_no' = request_no =>
          \A d \in Devices :
              sequences'[d] # sequences[d] =>
                  /\ sequences[d].state = "running"
                  /\ sequences'[d].attempt = sequences[d].attempt + 1
                  /\ sequences'[d].state \in {"running", "returned", "raised"}
                  /\ \A e \in Devices \ {d} : sequences'[e] = sequences[e] ]_vars

\* The transport of plug1 failed in its first attempt; plug2, which never
\* verified, still made all its max_retries attempts.
C13_Witness ==
    /\ sequences["plug1"].state = "raised"
    /\ sequences["plug1"].attempt = 1
    /\ sequences["plug2"].state = "returned"
    /\ sequences["plug2"].error_logged
    /\ sequences["plug2"].attempt = max_retries

(* ---------------- SpecReauth: one device and an invalid token ---------------- *)

ReauthSettings ==
    { [BaseSettings EXCEPT !.TUYA_DEVICE_IDS = Some({"plug1"})] }

\* The answers to a command, TOKEN_INVALID among them.
ReauthResponses == {"sent", "token_invalid", "raise", "token_invalid_raise"}

InitReauth == InitWith(ReauthSettings, {0}, {None})

NextReauth ==
    \/ monitor_awaits = None /\ CycleWithin(TuyaInputs, MaxTuyaCycles)
    \/ \E name \in {"on", "off"} : TurnDevices(name)
    \/ DeviceStep(ReauthResponses, Statuses)
    \/ GatherDone

SpecReauth == InitReauth /\ [][NextReauth]_vars

\* C14: on TOKEN_INVALID during a retry sequence the controller
\* re-establishes the session exactly once in that sequence and goes on with
\* the same attempt budget: a sequence never re-authenticates twice, and its
\* attempts never exceed max_retries.
C14_OneReauthPerSequence ==
    \A d \in Devices :
        /\ sequences[d].reauths <= 1
        /\ sequences[d].attempt <= max_retries

(* ---------------- SpecLoop: the loop under bad cycles ---------------- *)

\* settings.ini with the essential values (TELEGRAM_TOKEN, CHAT_ID,
\* VICTRON_API_URL, API_KEY) set, or with one of them empty.
LoopSettings ==
    { [s EXCEPT !.ESSENTIAL = e] : s \in SignalSettings, e \in BOOLEAN }

InitLoop == InitWith(LoopSettings, {0}, {None})

NextLoop == CycleIn(GridInputs)

SpecLoop == InitLoop /\ [][NextLoop]_vars

\* C16: after any failing cycle (telemetry fetch failure, Tuya API failure,
\* notification failure, missing credentials) the monitor waits the normal
\* delay and starts another cycle: no cycle ends the monitor task.
C16_BadCycleNeverEndsTheMonitor ==
    [][ IsCycle => (monitor_running' /\ now' = now + REFRESH_PERIOD) ]_vars

(* ---------------- C17: a failed delivery is not made up for ---------------- *)

\* C17: when the delivery of an event's message fails, the monitor does not
\* send that event again in a later cycle because of the failure.  The next
\* cycle reads the very same snapshot, so the data carry no new event: a
\* message whose delivery failed in the last cycle is not delivered in it.
C17_FailedDeliveryIsNotRepeated ==
    [][ (IsCycle /\ snap' = snap)
            => \A i \in 1..Len(failed) : ~Sent(out', failed[i].name) ]_vars

(* ---------------- SpecBackoff: the schedule refresh and its backoff ---------------- *)

\* The refresh interval is one minute or one hour.
BackoffSettings ==
    { [BaseSettings EXCEPT !.TUYA_DEVICE_IDS = Some({"plug1", "plug2"}),
                           !.SCHEDULE_ENABLED = TRUE, !.DTEK_CREDS = TRUE,
                           !.SCHEDULE_REFRESH_MINUTES = r] : r \in {1, 60} }

\* The grid is up and steady; a fetch finds nothing to read or raises; a
\* cycle takes 5 seconds, or 320 when the fetch is slow.
BackoffInputs ==
    [ snaps    |-> Snapshots({<< 0, "Grid lost" >>}, {Some(50)},
                             {Some(230000)}, {None}, {None}, {None}),
      sfails   |-> {{}},
      traises  |-> {{}},
      fetches  |-> {NoFetch, [raises |-> TRUE, schedules |-> <<>>]},
      connects |-> {TRUE},
      saves    |-> {TRUE},
      steps    |-> {REFRESH_PERIOD, 320} ]

InitBackoff == InitWith(BackoffSettings, {SecondsPerDay}, {None})

NextBackoff == CycleWithin(BackoffInputs, MaxBackoffCycles)

SpecBackoff == InitBackoff /\ [][NextBackoff]_vars

\* max(60, refreshMinutes * 60)
RefreshInterval == Max2(60, settings.SCHEDULE_REFRESH_MINUTES * 60)

\* The cycle attempted a fetch: every attempt moves the deadline.
FetchAttempted == next_schedule_fetch_ts' # next_schedule_fetch_ts

\* C18: after a failed schedule fetch the next attempt is not made before
\* min(refreshInterval, 5 * 2^min(failureCount, 6)) seconds have passed, where
\* failureCount counts the consecutive failures: a cycle fetches only when the
\* deadline has passed; a failure adds one to the count and puts the deadline
\* that many seconds after the time of the failed attempt; any other attempt
\* sets the count to zero; a cycle without an attempt changes neither.
C18_BackoffAfterFailedFetch ==
    [][ IsCycle =>
          /\ FetchAttempted => now >= next_schedule_fetch_ts
          /\ ~FetchAttempted => schedule_fetch_failures' = schedule_fetch_failures
          /\ FetchAttempted =>
               \/ /\ schedule_fetch_failures' = schedule_fetch_failures + 1
                  /\ \E e \in {Min2(schedule_fetch_failures', 6)} :
                        next_schedule_fetch_ts' =
                            now + Min2(RefreshInterval, 5 * (2 ^ e))
               \/ /\ schedule_fetch_failures' = 0
                  /\ next_schedule_fetch_ts' = now + RefreshInterval ]_vars

\* Seven failures in a row with the hourly refresh: the exponent is capped at
\* 6 and the deadline lies 320 seconds after the seventh failed attempt, which
\* a 320-second cycle has just reached.
C18_Witness ==
    /\ settings.SCHEDULE_REFRESH_MINUTES = 60
    /\ schedule_fetch_failures = 7
    /\ next_schedule_fetch_ts = now

(* ---------------- SpecReset: a reinitialize request ---------------- *)

\* A reinitialize request is issued: reset_last_values becomes True.  No line
\* of victron_monitor.py sets the flag (leaving the development mode, lines
\* 805-806, does not); the request is taken from the description of the
\* monitor, which names it as the way back from a simulation mode.
RequestReset ==
    /\ monitor_running
    /\ ~reset_last_values
    /\ reset_last_values' = TRUE
    /\ UNCHANGED << last_grid_status, last_soc, battery_low_reported,
                    battery_critical_reported, last_voltage_phases,
                    voltage_issue_reported, power_issue_counters,
                    power_issue_reported, schedule_login_in_progress,
                    dtek_schedule_cache, dtek_schedule_last_updated,
                    first_run, tuya_controller, schedule_fetcher,
                    next_schedule_fetch_ts, schedule_fetch_failures,
                    pre_outage_triggered, monitor_running, settings,
                    cache_file, now, snap, out, cycle_no, accepted_grid, expected_grid,
                    cache_update, pre_invoked, menu_no, failed, sequences,
                    monitor_awaits, request_no, orphans >>

\* Phase 1 is low or nominal, the other phases are not wired; the grid is up
\* or down.
ResetSnapshots ==
    { [grid |-> g, soc |-> Some(50),
       volt |-> [p \in Phases |-> IF p = 1 THEN v ELSE None],
       outv |-> [p \in Phases |-> None], outc |-> [p \in Phases |-> None],
       state |-> None] :
        g \in {<< 0, "Grid lost" >>, << 2, "Grid lost" >>},
        v \in {Some(206999), Some(230000)} }

ResetInputs == [VoltInputs EXCEPT !.snaps = ResetSnapshots, !.sfails = {{}}]

ResetSettings == { s \in SocSettings : ~GetintRaises(s) }

InitReset == InitWith(ResetSettings, {0}, {None})

NextReset == CycleIn(ResetInputs) \/ RequestReset

SpecReset == InitReset /\ [][NextReset]_vars

\* C21: a cycle that finds a reinitialize request pending resets the whole
\* signal state before it evaluates, and is a priming read: it sends no
\* notification and invokes no actuator.
C21_ResetCycleIsPriming ==
    [][ (IsCycle /\ reset_last_values /\ monitor_running')
            => /\ ~reset_last_values'
               /\ out' = << >>
               /\ failed' = << >> ]_vars

(* ---------------- SpecQuiet: quiet days and missing quiet hours ---------------- *)

\* Each quiet-hour bound is set (22, 6) or left empty as in DEFAULT_SETTINGS;
\* Monday is a quiet day or no day is.
QuietDaySettings ==
    { [BaseSettings EXCEPT !.QUIET_HOURS_START = a, !.QUIET_HOURS_END = b,
                           !.QUIET_DAYS = d] :
        a \in {None, Some(22)}, b \in {None, Some(6)}, d \in {{}, {1}} }

\* The monitor starts on a Monday or a Tuesday, at 10:00 or at 23:00.
InitQuiet ==
    InitWith(QuietDaySettings,
             { d * SecondsPerDay + h * 3600 : d \in {0, 1}, h \in {10, 23} },
             {None})

NextQuiet == CycleIn(GateInputs)

SpecQuiet == InitQuiet /\ [][NextQuiet]_vars

\* Every message of the cycle was delivered, with this disable_notification.
AllDeliveredWith(silent) ==
    /\ failed' = << >>
    /\ \A i \in 1..Len(out') : out'[i].type = "msg" => out'[i].flag = silent

\* C22: when the quiet-hour start or end is not configured and today is not a
\* quiet day, a message is delivered, with silent delivery off.
C22_MissingBoundSendsLoud ==
    [][ ( /\ IsCycle
          /\ (settings.QUIET_HOURS_START = None \/ settings.QUIET_HOURS_END = None)
          /\ current_day_user_numbering(now) \notin settings.QUIET_DAYS )
            => AllDeliveredWith(FALSE) ]_vars

\* C23: when the current weekday is a quiet day, a message is delivered
\* silently, whatever the hour and whatever quiet-hour bounds are configured.
C23_QuietDayIsSilent ==
    [][ (IsCycle /\ current_day_user_numbering(now) \in settings.QUIET_DAYS)
            => AllDeliveredWith(TRUE) ]_vars

\* C23 with both quiet-hour bounds configured.
QuietDayIsSilentWithBounds ==
    [][ ( /\ IsCycle
          /\ current_day_user_numbering(now) \in settings.QUIET_DAYS
          /\ ~GetintRaises(settings) )
            => AllDeliveredWith(TRUE) ]_vars

(* ---------------- SpecCodes: unexpected grid codes ---------------- *)

CodesSettings == { s \in SignalSettings : ~GetintRaises(s) }

\* Every fetch gives a snapshot with a state of charge, so that the first
\* cycle is the priming one, and every message is delivered.
CodesInputs ==
    [GridInputs EXCEPT !.sfails = {{}},
                       !.snaps = Snapshots(GridValues, {Some(50)}, {Some(230000)},
                                           {None}, {None}, {None})]

InitCodes == InitWith(CodesSettings, {0}, {None})

NextCodes == CycleIn(CodesInputs)

SpecCodes == InitCodes /\ [][NextCodes]_vars

\* The grid notifications and actuator requests of a cycle.
GridEvents(o) ==
    { i \in 1..Len(o) : \/ o[i].type = "tuya"
                        \/ o[i].name \in {"GRID_DOWN_MSG", "GRID_UP_MSG"} }

\* C24: a snapshot whose grid code is neither 2 nor 0 sends no grid
\* notification, invokes no actuator and is not treated as a transition: the
\* snapshot after it, when it has the code that was accepted before the
\* unexpected one, produces no grid event.  (Cycle 1 is the priming one.)
C24_UnexpectedCodeIsNoTransition ==
    [][ (IsCycle /\ cycle_no >= 2) =>
          /\ GridCode(snap'.grid) = 1 => GridEvents(out') = {}
          /\ ( /\ GridCode(snap.grid) = 1
               /\ expected_grid \in {0, 2}
               /\ GridCode(snap'.grid) = expected_grid )
               => GridEvents(out') = {} ]_vars

(* ---------------- SpecActuator: every signal, with a controller ---------------- *)

\* The grid is up or down, the battery above the low threshold or at the
\* critical one, phase 1 low or nominal on the input and lightly or heavily
\* loaded on the output, the inverter in Passthru or not.
ActuatorSnapshots ==
    { [grid |-> << g, "Grid lost" >>, soc |-> Some(soc),
       volt |-> [p \in Phases |-> IF p = 1 THEN Some(v) ELSE None],
       outv |-> [p \in Phases |-> IF p = 1 THEN Some(230000) ELSE None],
       outc |-> [p \in Phases |-> IF p = 1 THEN Some(c) ELSE None],
       state |-> st] :
        g \in {0, 2}, soc \in {5, 21}, v \in {206999, 230000},
        c \in {13043, 32000}, st \in {None, Some(PASSTHRU_STATE)} }

\* Any one message of a cycle may fail to be delivered and the request of
\* the cycle may raise.
ActuatorInputs ==
    [ snaps    |-> ActuatorSnapshots \cup {FailedSnapshot},
      sfails   |-> {{}, {1}, {2}},
      traises  |-> {{}, {1}},
      fetches  |-> {NoFetch},
      connects |-> {TRUE},
      saves    |-> {TRUE},
      steps    |-> {REFRESH_PERIOD} ]

ActuatorSettings ==
    { s \in SignalSettings : s.TUYA_DEVICE_IDS # None /\ ~GetintRaises(s) }

InitActuator == InitWith(ActuatorSettings, {0}, {None})

NextActuator == CycleWithin(ActuatorInputs, MaxSchedCycles)

SpecActuator == InitActuator /\ [][NextActuator]_vars

\* Every delivery of the message `name` in o is followed in o by the one
\* request `request` of o.
NotifiedThenRequested(o, name, request) ==
    Sent(o, name) =>
        /\ Cardinality(Requests(o, request)) = 1
        /\ \A i \in Sends(o, name), j \in Requests(o, request) : i < j

\* C25: with a controller configured, every cycle that sends a grid-down
\* notification requests turn_devices_off exactly once and every cycle that
\* sends a grid-up notification requests turn_devices_on exactly once, the
\* notification before the request; a cycle that sends neither (whatever its
\* SOC, voltage, power or current did) makes no request at all.
C25_ActuatorFollowsGridEvents ==
    [][ (IsCycle /\ tuya_controller' # None) =>
          /\ NotifiedThenRequested(out', "GRID_DOWN_MSG", "off")
          /\ NotifiedThenRequested(out', "GRID_UP_MSG", "on")
          /\ Requested(out', "off") => Sent(out', "GRID_DOWN_MSG")
          /\ Requested(out', "on") => Sent(out', "GRID_UP_MSG") ]_vars

\* A cycle with a controller has sent the grid-down notification and a
\* low-voltage alert and made its one request.
C25_Witness ==
    /\ tuya_controller # None
    /\ Sent(out, "GRID_DOWN_MSG")
    /\ Sent(out, "VOLTAGE_LOW_MSG")
    /\ Cardinality(Requests(out, "off")) = 1

(* ---------------- C26: the two battery alerts are independent (SpecSoc) ---------------- *)

\* The cycle evaluates the battery with a recorded previous sample and a
\* current one, and every message it sent was delivered.
SocEvaluated ==
    /\ IsCycle /\ ~first_run
    /\ last_soc # None /\ snap'.soc # None
    /\ failed' = << >>

VoltageAlerts(o, phase) ==
    { i \in VoltageSends(o, phase) : o[i].name # "VOLTAGE_NORMAL_MSG" }

\* C27: for each phase the voltage alerts and the recovery notifications
\* alternate, starting with an alert.  voltage_issue_reported[p] says whether
\* the last voltage message of the phase was an alert: it starts false and
\* changes only in a cycle that sends a voltage message for the phase; a cycle
\* sends at most one such message; an alert (low or high) is sent only while
\* none is outstanding and a recovery only while one is.
C27_VoltageMessagesAlternate ==
    [][ IsCycle =>
          \A p \in Phases :
            /\ cycle_no = 0 => ~voltage_issue_reported[p]
            /\ Cardinality(VoltageSends(out', p)) <= 1
            /\ VoltageAlerts(out', p) # {}
                 => ~voltage_issue_reported[p] /\ voltage_issue_reported'[p]
            /\ Sends(out', "VOLTAGE_NORMAL_MSG") \cap VoltageSends(out', p) # {}
                 => voltage_issue_reported[p] /\ ~voltage_issue_reported'[p]
            /\ voltage_issue_reported'[p] # voltage_issue_reported[p]
                 => VoltageSends(out', p) # {} ]_vars

\* An alert stands for phase 1 and the last cycle read it above the high
\* threshold, went through the voltage check and sent nothing for the phase.
C27_Witness ==
    /\ ~first_run
    /\ voltage_issue_reported[1]
    /\ snap.volt # None
    /\ snap.volt[1] = Some(253001)
    /\ last_voltage_phases[1] = Some(253001)
    /\ VoltageSends(out, 1) = {}

(* ---------------- C28: the breaches behind a critical load alert (SpecPower) ---------------- *)

\* C28: with the grid down, a critical load alert is sent for a phase in a
\* cycle only if the phase's power is above 0.98*MAX_POWER in that cycle, no
\* alert is outstanding, and the power was above 0.98*MAX_POWER in the
\* immediately preceding evaluated cycle as well.  (The preceding cycle is
\* looked at when it evaluated the phase: after the priming cycle, grid down,
\* output readings present.)
C28_AlertNeedsConsecutiveBreaches ==
    [][ IsCycle =>
          \A p \in Phases :
            LoadSends(out', p) # {} =>
              /\ DownWithPower(snap', p)
              /\ Power(Val(snap'.outc[p])) > power_limit
              /\ ~power_issue_reported[p]
              /\ (cycle_no >= 2 /\ DownWithPower(snap, p))
                   => Power(Val(snap.outc[p])) > power_limit ]_vars

\* What holds instead: the alert needs a breach in its own cycle, no alert
\* outstanding, and a counter that already holds at least one breach.
LoadAlertNeedsCountedBreach ==
    [][ IsCycle =>
          \A p \in Phases :
            LoadSends(out', p) # {} =>
              /\ DownWithPower(snap', p)
              /\ Power(Val(snap'.outc[p])) > power_limit
              /\ ~power_issue_reported[p]
              /\ power_issue_counters[p] >= 1 ]_vars

(* ---------------- SpecOverload: the two overload checks together ---------------- *)

\* Output currents of phase 1 in mA: those of SpecPower and 30 A, which lies
\* between 0.85 and 0.98 of PASSTHRU_CURRENT.
OverloadCurrents == CurrentValues \cup {Some(30000)}

\* The grid is up or down, the inverter in Passthru or not, and either
\* output reading of phase 1 may be missing.
OverloadSnapshots ==
    { [grid |-> << g, "Grid lost" >>, soc |-> Some(50),
       volt |-> [p \in Phases |-> Some(230000)],
       outv |-> [p \in Phases |-> IF p = 1 THEN v ELSE None],
       outc |-> [p \in Phases |-> IF p = 1 THEN c ELSE None],
       state |-> st] :
        g \in {0, 2}, v \in {None, Some(230000)},
        c \in OverloadCurrents \cup {None}, st \in {None, Some(PASSTHRU_STATE)} }

OverloadInputs == [PowerInputs EXCEPT !.snaps = OverloadSnapshots \cup {FailedSnapshot}]

InitOverload == InitWith(PowerSettings, {0}, {None})

NextOverload == CycleIn(OverloadInputs)

SpecOverload == InitOverload /\ [][NextOverload]_vars

\* The snapshot has the Passthru state and a current reading for the phase.
PassthruWithCurrent(s, phase) ==
    /\ s.state = Some(PASSTHRU_STATE)
    /\ s.outv # None /\ s.outc # None
    /\ HasOutput(s, phase)

\* The sample of the phase lies between the reset threshold and the limit of
\* the power check, or of the current check.
InPowerDeadZone(s, phase) ==
    /\ DownWithPower(s, phase)
    /\ Power(Val(s.outc[phase])) <= power_limit
    /\ Power(Val(s.outc[phase])) >= power_reset_threshold

InCurrentDeadZone(s, phase) ==
    /\ PassthruWithCurrent(s, phase)
    /\ Val(s.outc[phase]) <= passthru_current_limit
    /\ Val(s.outc[phase]) >= passthru_current_reset_threshold

OverloadStateUnchanged(phase) ==
    /\ power_issue_counters'[phase] = power_issue_counters[phase]
    /\ power_issue_reported'[phase] = power_issue_reported[phase]

\* C29: a grid-down sample whose power is neither above 0.98*MAX_POWER nor
\* below 0.80*MAX_POWER, and likewise a Passthru sample whose current is
\* neither above 0.98 nor below 0.85 of PASSTHRU_CURRENT, leaves the breach
\* counter and the reported flag of the phase unchanged.
C29_DeadZoneKeepsOverloadState ==
    [][ IsCycle =>
          \A p \in Phases :
            (InPowerDeadZone(snap', p) \/ InCurrentDeadZone(snap', p))
              => OverloadStateUnchanged(p) ]_vars

\* The same for the cycles in which only the check that sees the dead zone
\* runs.
DeadZoneKeepsOverloadStateAlone ==
    [][ IsCycle =>
          \A p \in Phases :
            /\ (InPowerDeadZone(snap', p) /\ snap'.state # Some(PASSTHRU_STATE))
                 => OverloadStateUnchanged(p)
            /\ (InCurrentDeadZone(snap', p) /\ GridCode(snap'.grid) # 2)
                 => OverloadStateUnchanged(p) ]_vars

(* ---------------- C30: when the overload checks run (SpecOverload) ---------------- *)

\* The positions of o that hold an overload alert of the phase.
OverloadSends(o, phase) ==
    { i \in 1..Len(o) : o[i].type = "msg" /\ o[i].n = phase
                        /\ o[i].name \in {"CRITICAL_LOAD_MSG", "PASSTHRU_MSG"} }

\* C30: the power check runs only in a cycle whose grid code is down and the
\* current check only in a cycle whose VE.Bus state is Passthru: a critical
\* load alert is sent only with the grid down, a Passthru alert only in
\* Passthru, and in a cycle where neither holds, or where the output voltage
\* or the output current of a phase is absent, the breach counter and the
\* reported flag of the phase are unchanged and no overload alert is sent for
\* it.
C30_OverloadChecksAreGuarded ==
    [][ IsCycle =>
          \A p \in Phases :
            /\ LoadSends(out', p) # {} => DownWithPower(snap', p)
            /\ OverloadSends(out', p) \ LoadSends(out', p) # {}
                 => PassthruWithCurrent(snap', p)
            /\ ( \/ GridCode(snap'.grid) # 2 /\ snap'.state # Some(PASSTHRU_STATE)
                 \/ snap'.outv = None \/ snap'.outc = None
                 \/ ~HasOutput(snap', p) )
                 => /\ OverloadStateUnchanged(p)
                    /\ OverloadSends(out', p) = {} ]_vars

\* One breach is counted for phase 1, and the last cycle, which went through
\* all its checks, read 32 A with the grid up and the inverter not in
\* Passthru.
C30_Witness ==
    /\ ~first_run /\ cycle_no >= 3
    /\ power_issue_counters[1] = 1
    /\ GridCode(snap.grid) = 0
    /\ snap.state = None
    /\ snap.outv # None /\ snap.outc # None
    /\ snap.outv[1] = Some(230000)
    /\ snap.outc[1] = Some(32000)
    /\ last_voltage_phases[1] = Some(230000)
    /\ OverloadSends(out, 1) = {}

\* One breach is counted for phase 1, and the last cycle read the grid down
\* and the Passthru state but no output voltage for the phase.
AbsentReadingWitness ==
    /\ ~first_run /\ cycle_no >= 3
    /\ power_issue_counters[1] = 1
    /\ GridCode(snap.grid) = 2
    /\ snap.state = Some(PASSTHRU_STATE)
    /\ snap.outv # None /\ snap.outc # None
    /\ snap.outv[1] = None
    /\ snap.outc[1] = Some(32000)

(* ---------------- SpecTrigger: the pre-outage trigger and its conditions ---------------- *)

\* Schedule automation on or off, with or without a controller.
TriggerSettings ==
    { [SchedSettings EXCEPT !.SCHEDULE_ENABLED = e, !.TUYA_DEVICE_IDS = t] :
        e \in BOOLEAN, t \in TuyaSettings }

InitTrigger == InitWith(TriggerSettings, {2 * SecondsPerDay - 60}, SchedFiles)

NextTrigger ==
    \/ CycleWithin(SchedInputs, MaxSchedCycles)
    \/ \E f \in SchedFetches, sv \in BOOLEAN : ForceFetch(f, sv, 30)
    \/ ShowCache

SpecTrigger == InitTrigger /\ [][NextTrigger]_vars

\* The period starts of the cached schedules of the day of t and of the day
\* after it.
PeriodStarts(cache, t) ==
    UNION { { d * SecondsPerDay + Val(parse_hhmm(cache[Key(d)].periods[i][1])) :
                i \in { j \in 1..Len(cache[Key(d)].periods) :
                          parse_hhmm(cache[Key(d)].periods[j][1]) # None } } :
            d \in { e \in {DateOf(t), DateOf(t + SecondsPerDay)} :
                      Key(e) \in DOMAIN cache } }

\* The period starts the trigger of the cycle requested turn_devices_off for.
TriggerInvoked(o) == { o[i].n : i \in PreRequests(o) }

\* The conditions of C31 for a period start in a cycle that began at `now`
\* (the cache is the one the schedule block leaves, after a due refresh).
TriggerDue(start_dt) ==
    /\ settings.SCHEDULE_ENABLED
    /\ tuya_controller' # None
    /\ GridCode(snap'.grid) = 0
    /\ start_dt \in PeriodStarts(dtek_schedule_cache', now)
    /\ start_dt \notin pre_outage_triggered
    /\ InTriggerWindow(now, start_dt)

\* The period starts a cache of the model can hold around the clock of a
\* cycle.
StartsInReach ==
    PeriodStarts(dtek_schedule_cache', now - SecondsPerDay)
      \cup PeriodStarts(dtek_schedule_cache', now + SecondsPerDay)
      \cup pre_outage_triggered \cup pre_outage_triggered'
      \cup TriggerInvoked(out')

\* C31: in a telemetry cycle (after the priming one) the pre-outage trigger
\* requests turn_devices_off for a period start and records it in the ledger
\* exactly when schedule automation is enabled, a controller exists, the grid
\* code is 0, the period start belongs to the cached schedule of today or
\* tomorrow, it is not in the ledger, and now lies in [periodStart - lead,
\* periodStart - lead + max(60 s, 2 * REFRESH_PERIOD)]; otherwise the trigger
\* makes no request and records nothing.
C31_TriggerExactlyWhenDue ==
    [][ (IsCycle /\ ~first_run) =>
          \A start_dt \in StartsInReach :
            /\ TriggerDue(start_dt)
                 <=> start_dt \in TriggerInvoked(out')
            /\ TriggerDue(start_dt)
                 <=> (start_dt \in pre_outage_triggered'
                        /\ start_dt \notin pre_outage_triggered) ]_vars

\* The same without the ledger's half: the request is made exactly when the
\* conditions hold, and a period start enters the ledger only with a request.
TriggerRequestsExactlyWhenDue ==
    [][ (IsCycle /\ ~first_run) =>
          \A start_dt \in StartsInReach :
            /\ TriggerDue(start_dt)
                 <=> start_dt \in TriggerInvoked(out')
            /\ (start_dt \in pre_outage_triggered'
                   /\ start_dt \notin pre_outage_triggered)
                 => TriggerDue(start_dt) ]_vars

(* ---------------- SpecConfig: the device list is edited while the monitor runs ---------------- *)

\* The device lists the menu can save: none (device control disabled), one
\* plug, two plugs.
DeviceLists == {None, Some({"plug1"}), Some({"plug1", "plug2"})}

\* Menu option 5, configure_tuya_devices (lines 562-610), run from the menu
\* of the process whose task the monitor is (lines 1705, 1767): the new list
\* is written to settings.ini, which the loop reads at the top of every
\* iteration (lines 1328-1329).
configure_tuya_devices(device_ids) ==
    /\ menu_no < MaxMenu
    /\ device_ids # settings.TUYA_DEVICE_IDS
    /\ settings' = [settings EXCEPT !.TUYA_DEVICE_IDS = device_ids]
    /\ menu_no' = menu_no + 1
    /\ UNCHANGED << last_grid_status, last_soc, battery_low_reported,
                    battery_critical_reported, last_voltage_phases,
                    voltage_issue_reported, power_issue_counters,
                    power_issue_reported, reset_last_values,
                    schedule_login_in_progress, dtek_schedule_cache,
                    dtek_schedule_last_updated, first_run, tuya_controller,
                    schedule_fetcher, next_schedule_fetch_ts,
                    schedule_fetch_failures, pre_outage_triggered,
                    monitor_running, cache_file, now, snap, out, cycle_no,
                    accepted_grid, expected_grid, cache_update, pre_invoked,
                    failed, sequences, monitor_awaits, request_no, orphans >>

ConfigSettings ==
    { [BaseSettings EXCEPT !.TUYA_DEVICE_IDS = t] : t \in DeviceLists }

InitConfig == InitWith(ConfigSettings, {0}, {None})

NextConfig ==
    \/ CycleIn(CodesInputs)
    \/ \E device_ids \in DeviceLists : configure_tuya_devices(device_ids)

SpecConfig == InitConfig /\ [][NextConfig]_vars

\* C32: the controller's device set is fixed when it is built, and a change
\* of the configured device list is detected by the loop, which rebuilds the
\* controller: a cycle that makes an actuator request makes it with a
\* controller whose devices are exactly the configured ones.
C32_RequestsDriveConfiguredDevices ==
    [][ (IsCycle /\ (Requested(out', "off") \/ Requested(out', "on")))
          => tuya_controller' = settings.TUYA_DEVICE_IDS ]_vars

\* What holds instead: the controller keeps the list it was built with until
\* the configured list is empty in some cycle.
ControllerKeepsItsDevices ==
    [][ (IsCycle /\ tuya_controller # None /\ settings.TUYA_DEVICE_IDS # None
           /\ monitor_running')
          => tuya_controller' = tuya_controller ]_vars

(* ---------------- C33: a grid event whose notification fails (Spec) ---------------- *)

GridMsgs == {"GRID_DOWN_MSG", "GRID_UP_MSG"}

\* The grid notifications among the failed deliveries f.
FailedGridMsgs(f) == { f[i].name : i \in { j \in 1..Len(f) : f[j].name \in GridMsgs } }

\* C33: on a grid transition the actuator request is made only after the
\* notification of the event was delivered; when the delivery raises, the
\* cycle makes no actuator request and does not update the last grid value,
\* and the next cycle, reading the same grid value, detects the transition
\* again and sends (or fails to send) the same notification again.
C33_FailedGridNotificationIsRetried ==
    [][ IsCycle =>
          /\ Requested(out', "off")
               => \E i \in Sends(out', "GRID_DOWN_MSG") :
                     \A j \in Requests(out', "off") : i < j
          /\ Requested(out', "on")
               => \E i \in Sends(out', "GRID_UP_MSG") :
                     \A j \in Requests(out', "on") : i < j
          /\ FailedGridMsgs(failed') # {}
               => /\ ~Requested(out', "off") /\ ~Requested(out', "on")
                  /\ last_grid_status' = last_grid_status
          /\ (FailedGridMsgs(failed) # {} /\ snap'.grid = snap.grid)
               => \A name \in FailedGridMsgs(failed) :
                     Sent(out', name) \/ name \in FailedGridMsgs(failed') ]_vars

\* With a controller, the last cycle read the grid down after another value,
\* the delivery of its notification raised, no request was made and the last
\* grid value is still the old one.
C33_Witness ==
    /\ tuya_controller # None
    /\ ~first_run
    /\ GridCode(snap.grid) = 2
    /\ FailedGridMsgs(failed) = {"GRID_DOWN_MSG"}
    /\ last_grid_status # snap.grid
    /\ out = << >>

(* ---------------- SpecOverlap: a request made while earlier tasks still run ---------------- *)

\* The calls of turn_devices_on / turn_devices_off in a run of this
\* specification.
MaxOverlapRequests == 2

\* The plugs are slow: a verification does not see the desired value yet.
OverlapStatuses == {"nomatch"}

InitOverlap == InitWith(TuyaOnSettings, {0}, {None})

NextOverlap ==
    \/ monitor_awaits = None /\ CycleWithin(TuyaInputs, MaxTuyaCycles)
    \/ \E name \in {"on", "off"} : TurnDevicesWithin(name, MaxOverlapRequests)
    \/ DeviceStep(Responses, OverlapStatuses)
    \/ GatherDone
    \/ \E d \in Devices, desired \in {"on", "off"} : OrphanEnds(d, desired)

SpecOverlap == InitOverlap /\ [][NextOverlap]_vars

\* The desired states of the ensure_desired_state tasks that are running for
\* the device.
ActiveStates(d) ==
    orphans[d] \cup (IF sequences[d].state = "running"
                     THEN {sequences[d].desired} ELSE {})

\* C34: at no time are two ensure_desired_state retry sequences with
\* different desired states active for the same device.
C34_NoOpposedSequences ==
    \A d \in Devices : Cardinality(ActiveStates(d)) <= 1

(* ---------------- SpecStay: the schedule with every grid reading ---------------- *)

\* The cycles of SpecSched with the readings of the grid signal that Spec
\* has: either label for a code, and the failed fetch.
StayInputs ==
    [SchedInputs EXCEPT
        !.snaps = Snapshots(({0, 2} \X Labels), {Some(50)}, {Some(230000)},
                            {None}, {None}, {None})
                    \cup {FailedSnapshot}]

InitStay == InitWith({SchedSettings}, {2 * SecondsPerDay - 60}, SchedFiles)

NextStay ==
    \/ CycleWithin(StayInputs, MaxSchedCycles)
    \/ \E f \in SchedFetches, sv \in BOOLEAN : ForceFetch(f, sv, 30)
    \/ ShowCache

SpecStay == InitStay /\ [][NextStay]_vars

\* C35: once the pre-outage trigger has requested turn_devices_off, a cycle
\* requests turn_devices_on only on a grid-up transition: its grid code is 0
\* and the code of the latest earlier snapshot that had a grid value is not.
\* While the code stays 0 no turn_devices_on is requested.
C35_OnOnlyAfterGridReturns ==
    [][ (IsCycle /\ pre_invoked # {} /\ Requested(out', "on"))
          => /\ GridCode(snap'.grid) = 0
             /\ GridCode(accepted_grid) # 0 ]_vars

(* ---------------- C36: the trigger and the grid check in one cycle (SpecSched) ---------------- *)

\* The last entry of o is a request `name`.
LastRequested(o, name) ==
    o # << >> /\ o[Len(o)].type = "tuya" /\ o[Len(o)].name = name

\* The cycle made a pre-outage request and delivered the grid-up
\* notification: the grid has returned inside a trigger window.
ReturnedInWindow ==
    /\ IsCycle
    /\ PreRequests(out') # {}
    /\ Sent(out', "GRID_UP_MSG")

\* C36: in a cycle where the grid has just returned to up inside a trigger
\* window, the trigger's turn_devices_off comes before the grid check's
\* turn_devices_on, so that the last requested state is on, and the period
\* start is recorded in the ledger (it is not triggered again).
C36_TriggerBeforeGridCheck ==
    [][ ReturnedInWindow =>
          /\ \A i \in PreRequests(out') :
                \E j \in Requests(out', "on") : i < j
          /\ LastRequested(out', "on")
          /\ TriggerInvoked(out') \subseteq pre_outage_triggered' ]_vars

\* The order alone, and the ledger for the requests that returned.
TriggerThenOn ==
    [][ ReturnedInWindow =>
          /\ \A i \in PreRequests(out') :
                \E j \in Requests(out', "on") : i < j
          /\ LastRequested(out', "on")
          /\ \A i \in PreRequests(out') :
                ~out'[i].flag => out'[i].n \in pre_outage_triggered' ]_vars

(* ---------------- C37: breaches are counted per cycle (SpecOverload) ---------------- *)

\* C37: the power check and the Passthru check share one breach counter and
\* one reported flag per phase; the counter grows by at most one in a cycle,
\* and an overload alert (critical load or Passthru) is sent for a phase only
\* when a breach of an earlier cycle is already counted, that is, after
\* breaches in at least two distinct cycles since the counter was reset.
C37_OverloadAlertNeedsTwoCycles ==
    [][ IsCycle =>
          \A p \in Phases :
            /\ power_issue_counters'[p] <= power_issue_counters[p] + 1
            /\ OverloadSends(out', p) # {} => power_issue_counters[p] >= 1 ]_vars

(* ---------------- SpecPriming: priming while the SOC is absent ---------------- *)

\* The cycles of SpecSched, with snapshots that lack the SOC record and with
\* the failed fetch.
PrimingInputs ==
    [SchedInputs EXCEPT
        !.snaps = Snapshots({<< 0, "Grid lost" >>, << 2, "Grid lost" >>},
                            {None, Some(50)}, {Some(230000)}, {None}, {None}, {None})
                    \cup {FailedSnapshot}]

InitPriming == InitWith({SchedSettings}, {2 * SecondsPerDay - 60}, SchedFiles)

NextPriming ==
    \/ CycleWithin(PrimingInputs, MaxSchedCycles)
    \/ \E f \in SchedFetches, sv \in BOOLEAN : ForceFetch(f, sv, 30)
    \/ ShowCache

SpecPriming == InitPriming /\ [][NextPriming]_vars

\* C38: the monitor leaves priming only in a cycle whose snapshot has an SOC
\* value.  A cycle that starts in priming sends nothing, requests nothing,
\* builds no controller and evaluates neither the schedule refresh nor the
\* trigger; it ends priming exactly when its snapshot has an SOC.
C38_PrimingLastsWhileSocAbsent ==
    [][ (IsCycle /\ first_run) =>
          /\ first_run' <=> (snap'.soc = None)
          /\ out' = << >> /\ failed' = << >>
          /\ cache_update' = None
          /\ UNCHANGED << tuya_controller, schedule_fetcher, next_schedule_fetch_ts,
                          schedule_fetch_failures, dtek_schedule_cache,
                          dtek_schedule_last_updated, cache_file,
                          pre_outage_triggered, pre_invoked >> ]_vars

\* Two cycles have run and the monitor is still priming: the last one read
\* the grid up but no SOC, with a schedule in the cache.
C38_Witness ==
    /\ cycle_no = 2
    /\ first_run
    /\ GridCode(snap.grid) = 0
    /\ snap.soc = None
    /\ last_grid_status = snap.grid
    /\ DOMAIN dtek_schedule_cache # {}
    /\ out = << >>

(* ---------------- SpecRenotify: a refresh in every cycle ---------------- *)

\* The cycles of SpecSched, one minute long: with a refresh interval of one
\* minute every cycle after the priming one is a due refresh.
RenotifyInputs == [SchedInputs EXCEPT !.steps = {60}]

InitRenotify == InitWith({SchedSettings}, {2 * SecondsPerDay - 60}, SchedFiles)

NextRenotify ==
    \/ CycleWithin(RenotifyInputs, MaxSchedCycles)
    \/ \E f \in SchedFetches, sv \in BOOLEAN : ForceFetch(f, sv, 30)
    \/ ShowCache

SpecRenotify == InitRenotify /\ [][NextRenotify]_vars

\* The step is a refresh of the monitor that follows a refresh of the
\* monitor, with nothing between them.
ConsecutiveRefreshes ==
    /\ IsCycle
    /\ cache_update # None /\ Val(cache_update).by = "monitor"
    /\ cache_update' # None

\* The candidates of both refreshes.
SameCandidates ==
    { Val(cache_update').schedules[i] : i \in 1..Len(Val(cache_update').schedules) }
      \cap { Val(cache_update).schedules[i] : i \in 1..Len(Val(cache_update).schedules) }

\* C39: when two consecutive successful refreshes return the same candidate
\* for a date, the second sends no update message for it, also when the date
\* is neither today nor tomorrow and the first refresh pruned it.
C39_SameCandidateIsNotRenotified ==
    [][ ConsecutiveRefreshes =>
          \A c \in SameCandidates : ~UpdateSentFor(out', c) ]_vars

\* The same for the candidates the first refresh kept in the cache.
KeptCandidateIsNotRenotified ==
    [][ ConsecutiveRefreshes =>
          \A c \in SameCandidates :
            c.date \in Val(cache_update).after => ~UpdateSentFor(out', c) ]_vars

(* ---------------- a refresh that finds no schedule ---------------- *)

\* Lines 990-1010, 1070-1071: fetch_latest_schedule returns None without a
\* client, a matching post, a photo or a readable date; line 1448 takes None
\* and an empty list alike.
EmptyFetches == { f \in SchedFetches : ~f.raises /\ f.schedules = <<>> }

\* The step is a cycle that attempted a fetch, and the fetch gave nothing.
EmptyRefresh ==
    /\ FetchAttempted
    /\ CycleWithin([SchedInputs EXCEPT !.fetches = EmptyFetches], MaxSchedCycles)

\* C40: a due refresh whose fetch returns no schedule is a success: the
\* failure count becomes 0, the next fetch is due a full refresh interval
\* after this one, and the cache, its last-updated timestamp and the cache
\* file stay as they were (no cache update is made).
C40_EmptyRefreshIsSuccess ==
    [][ EmptyRefresh =>
          /\ schedule_fetch_failures' = 0
          /\ next_schedule_fetch_ts' = now + RefreshInterval
          /\ dtek_schedule_cache' = dtek_schedule_cache
          /\ dtek_schedule_last_updated' = dtek_schedule_last_updated
          /\ cache_file' = cache_file
          /\ cache_update' = None ]_vars

\* The cycle 30 seconds ago fetched and made no cache update, with a schedule
\* cached and saved: the count is 0 and the deadline a full interval after
\* that cycle.
C40_Witness ==
    /\ cycle_no >= 2
    /\ dtek_schedule_cache # <<>>
    /\ dtek_schedule_last_updated # None
    /\ cache_file # None
    /\ cache_update = None
    /\ schedule_fetch_failures = 0
    /\ next_schedule_fetch_ts = (now - 30) + RefreshInterval

====
